---------------------------- MODULE Spec2Model ----------------------------
(***************************************************************************)
(* Audio Splitter Pro: the pipeline reconciliation of audio_splitter_gui,  *)
(* audio_splitter_gui_v2, audio_mastering_gui and universal_audio_splitter *)
(* against a sound server driven through pactl.                            *)
(*                                                                         *)
(* Text is a sequence of atoms.  An atom is a fixed run of characters (a   *)
(* lexeme such as "sink_name=" or a single letter); every place where a    *)
(* pattern of the programs can begin or end inside the server's output is  *)
(* an atom boundary, so that "is a substring of" on characters and on      *)
(* atoms agree for the texts of this model.                                *)
(*                                                                         *)
(* The sound server is the flat module list the programs see through       *)
(* `pactl list modules`: load-module appends a module under a fresh id,    *)
(* unload-module removes the module of that id, every call may exit        *)
(* non-zero and then changes nothing.  The server neither checks that the  *)
(* master named in a load exists nor removes the dependents of an unloaded *)
(* module (spec.md 4.4: it may "orphan dependents if unloaded out of       *)
(* order").                                                                *)
(***************************************************************************)
EXTENDS Integers, Sequences, FiniteSets, TLC

\* ------------------------------------------------------------------ bounds

\* Operations (apply / stop clicks) in one behaviour of the reliable
\* environment.
MaxOps == 2

\* External calls that exit non-zero in the operation of the flaky
\* environment.
MaxFaults == 1

\* Modules the server may hold when an operation starts (the mastering GUI
\* leaves its modules loaded, so that the server grows with every apply).
MaxModules == 9

\* Longest pattern and longest line body of the matcher's own specification.
MaxPatLen == 2

\* ------------------------------------------------------------------- text

\* Python's `p in t` for strings: p occurs in t as a contiguous run.
IsSubstring(p, t) ==
  \E i \in 0..(Len(t) - Len(p)) : \A k \in 1..Len(p) : t[i + k] = p[k]

\* Whitespace atoms (what str.strip removes at both ends).
IsSpace(a) == a \in {" ", "\t"}

RECURSIVE LStrip(_)
LStrip(line) ==
  IF line # <<>> /\ IsSpace(Head(line)) THEN LStrip(Tail(line)) ELSE line

\* line.strip().startswith(prefix), prefix a single atom.
StripStartsWith(line, prefix) ==
  LET s == LStrip(line) IN s # <<>> /\ Head(s) = prefix

\* line.startswith(prefix), prefix a single atom.
StartsWith(line, prefix) == line # <<>> /\ Head(line) = prefix

\* `p in b` for a block b (a sequence of lines) and a pattern without a line
\* break: p lies inside one line of b.
InBlock(p, b) == \E l \in 1..Len(b) : IsSubstring(p, b[l])

Range(s) == {s[i] : i \in 1..Len(s)}

Reverse(q) == [i \in 1..Len(q) |-> q[Len(q) + 1 - i]]

\* ------------------------------------------------------------------ names

\* The atoms of a sink, source or device name.
NameAtoms(n) ==
  CASE n = "splitter_left"        -> <<"splitter", "_", "left">>
    [] n = "splitter_right"       -> <<"splitter", "_", "right">>
    [] n = "splitter_backup"      -> <<"splitter", "_", "backup">>
    [] n = "universal_splitter"   -> <<"universal_", "splitter">>
    [] n = "universal_compressor" -> <<"universal_", "compressor">>
    [] n = "universal_left"       -> <<"universal_", "left">>
    [] n = "universal_right"      -> <<"universal_", "right">>
    [] n = "audio_splitter"       -> <<"audio_", "splitter">>
    [] n = ""                     -> <<>>
    [] OTHER                      -> <<n>>

\* Pipeline component names (CONFIG["pipeline"] defaults).
LEFT_SRC == "splitter_left"
RIGHT_SRC == "splitter_right"
SPLITTER_SINK == "splitter"
COMPRESSOR_SINK == "compressor"
LIMITER_SINK == "limiter"
EQ_SINK == "eq"
MULTICOMP_SINK == "multicomp"

\* The output devices of the machine (not owned by the programs).
Devices == {"dev1", "dev2", "dev3"}

\* ----------------------------------------------------------- sound server

\* A loaded module: its server-assigned id, its module name, and the
\* arguments it was loaded with (nm: sink_name / source_name; master:
\* sink_master, the sink whose monitor is `master=`, or the loopback's
\* `source=`; dev: the loopback's `sink=`).
Mod(id, name, nm, master, dev) ==
  [id |-> id, name |-> name, nm |-> nm, master |-> master, dev |-> dev]

\* The argument text of a module, as the load commands of the programs
\* spell it.
ArgText(m) ==
  CASE m.name = "module-null-sink" ->
         IF m.nm = "" THEN <<>>
         ELSE <<"sink_name=">> \o NameAtoms(m.nm)
                \o <<" ", "sink_properties=device.description=...">>
    [] m.name = "module-ladspa-sink" ->
         <<"sink_name=">> \o NameAtoms(m.nm) \o <<" ", "sink_master=">>
           \o NameAtoms(m.master) \o <<" ", "plugin=... label=... control=...">>
    [] m.name = "module-remap-source" ->
         <<"source_name=">> \o NameAtoms(m.nm) \o <<" ", "master=">>
           \o NameAtoms(m.master) \o <<".monitor", " ", "channels=1 channel_map=mono">>
    [] m.name = "module-loopback" ->
         <<"source=">> \o NameAtoms(m.master) \o <<" ", "sink=">>
           \o NameAtoms(m.dev) \o <<" ", "latency_msec=50">>
    [] OTHER -> <<>>

\* One block of `pactl list modules`: the header line with the id, then the
\* name and the argument text on lines of their own.
Block(m) ==
  << <<"Module #", m.id>>,
     <<"\t", "Name: ", m.name>>,
     <<"\t", "Argument: ">> \o ArgText(m),
     <<"\t", "Usage counter: ", "n/a">> >>

\* `pactl list modules`: the blocks of the loaded modules, in load order.
ListModules(mods) == [i \in 1..Len(mods) |-> Block(mods[i])]

\* The sink a module provides ("" when it provides none).  A null sink
\* loaded without sink_name is called "null".
SinkOf(m) ==
  CASE m.name = "module-null-sink" -> IF m.nm = "" THEN "null" ELSE m.nm
    [] m.name = "module-ladspa-sink" -> m.nm
    [] OTHER -> ""

\* `pactl list short sinks`: one line of fields <<index, name, driver>> per
\* sink, the devices first.
DeviceLines ==
  << <<"0", "dev1", "module-alsa-card.c">>,
     <<"1", "dev2", "module-alsa-card.c">>,
     <<"2", "dev3", "module-alsa-card.c">> >>

RECURSIVE SinkLines(_)
SinkLines(mods) ==
  IF mods = <<>> THEN <<>>
  ELSE LET m == Head(mods) IN
       (IF SinkOf(m) = "" THEN <<>>
        ELSE << <<m.id, SinkOf(m), m.name>> >>) \o SinkLines(Tail(mods))

ShortSinks(mods) == DeviceLines \o SinkLines(mods)

\* The id the server gives to the next module: the lowest index not in use.
FreeId(mods) ==
  LET used == {mods[i].id : i \in 1..Len(mods)} IN
  ToString(CHOOSE n \in 1..(Len(mods) + 1) :
             /\ ToString(n) \notin used
             /\ \A k \in 1..(n - 1) : ToString(k) \in used)

\* pactl load-module: the module list with the new module appended.
LoadModule(mods, m) == Append(mods, m)

\* pactl unload-module <id>: the module list without the module of that id.
UnloadModule(mods, id) == SelectSeq(mods, LAMBDA m : m.id # id)

\* --------------------------------------------------------------- matchers

\* The id of a block: the text after "#" on its first line that starts,
\* stripped, with "Module #"; <<>> when the block has no such line.
BlockId(b) ==
  LET hs == SelectSeq(b, LAMBDA l : StripStartsWith(l, "Module #")) IN
  IF hs = <<>> THEN <<>>
  ELSE LET rest == Tail(LStrip(Head(hs))) IN
       << IF rest = <<>> THEN "" ELSE Head(rest) >>

\* A matcher that ORs its patterns (any() where the code has all()).
RECURSIVE find_module_ids_any(_, _, _)
find_module_ids_any(patterns, code, text) ==
  IF code # 0 \/ text = <<>> THEN <<>>
  ELSE LET b == Head(text) IN
       (IF \E k \in 1..Len(patterns) : InBlock(patterns[k], b)
        THEN BlockId(b) ELSE <<>>)
       \o find_module_ids_any(patterns, code, Tail(text))

\* A matcher that gives up at a block that has the patterns and no header.
RECURSIVE find_module_ids_abort(_, _, _)
find_module_ids_abort(patterns, code, text) ==
  IF code # 0 \/ text = <<>> THEN <<>>
  ELSE LET b == Head(text) IN
       IF \A k \in 1..Len(patterns) : InBlock(patterns[k], b)
       THEN (IF BlockId(b) = <<>> THEN <<>>
             ELSE BlockId(b) \o find_module_ids_abort(patterns, code, Tail(text)))
       ELSE find_module_ids_abort(patterns, code, Tail(text))

\* audio_splitter_gui.find_module_ids (audio_splitter_gui_v2 has the same
\* code): code and text are what `pactl list modules` returned, text already
\* split into blocks.
RECURSIVE find_module_ids(_, _, _)
find_module_ids(patterns, code, text) ==
  IF code # 0 \/ text = <<>> THEN <<>>
  ELSE LET b == Head(text) IN
       (IF \A k \in 1..Len(patterns) : InBlock(patterns[k], b)
        THEN BlockId(b) ELSE <<>>)
       \o find_module_ids(patterns, code, Tail(text))

\* A regular expression of the mastering GUI: literal parts joined by ".*",
\* each part a set of alternatives.  re.search(pattern, line).
RECURSIVE RegexFrom(_, _, _)
RegexFrom(parts, line, start) ==
  IF parts = <<>> THEN TRUE
  ELSE \E alt \in Head(parts) :
         \E i \in start..(Len(line) - Len(alt)) :
           /\ \A k \in 1..Len(alt) : line[i + k] = alt[k]
           /\ RegexFrom(Tail(parts), line, i + Len(alt))

RegexSearch(parts, line) == RegexFrom(parts, line, 0)

\* The lines of `pactl list modules` as out.splitlines() gives them: the
\* lines of the blocks, an empty line between two blocks.
RECURSIVE OutLines(_)
OutLines(text) ==
  IF text = <<>> THEN <<>>
  ELSE Head(text) \o (IF Len(text) > 1 THEN << <<>> >> ELSE <<>>)
         \o OutLines(Tail(text))

\* The loop of audio_mastering_gui.find_module_ids over the lines, from line
\* i on: a "Module #" line sets current_id (<<>> for None); another line
\* that the pattern matches, while current_id is set and not empty, yields
\* it and clears it.
RECURSIVE MasteringScan(_, _, _, _)
MasteringScan(pattern, lines, i, current_id) ==
  IF i > Len(lines) THEN <<>>
  ELSE LET line == lines[i] IN
       IF StartsWith(line, "Module #")
       THEN MasteringScan(pattern, lines, i + 1,
                          << IF Len(line) > 1 THEN line[2] ELSE "" >>)
       ELSE IF current_id # <<>> /\ current_id # <<"">>
                 /\ RegexSearch(pattern, line)
            THEN current_id \o MasteringScan(pattern, lines, i + 1, <<>>)
            ELSE MasteringScan(pattern, lines, i + 1, current_id)

\* audio_mastering_gui.find_module_ids.
mastering_find_module_ids(pattern, code, text) ==
  IF code # 0 THEN <<>> ELSE MasteringScan(pattern, OutLines(text), 1, <<>>)

\* ------------------------------------------------------------------ state

VARIABLES
  env,              \* "reliable": every call succeeds; "flaky": calls may fail
  prog,             \* the program: "gui", "v2", "mastering" or "universal"
  modules,          \* the server's loaded modules, in load order
  pc,               \* the position of the running handler, "idle" between clicks
  op,               \* the running (or last) operation: "apply" or "stop"
  plan,             \* the arguments of the running (or last) apply
  grp,              \* stop_pipeline: the pattern group to query next
  pending,          \* the ids found (or recorded) and not yet unloaded
  splitter,         \* apply: local `splitter` / `splitter_sink`
  master_sink,      \* apply: local `master_sink`
  all_sinks,        \* build_mastering_pipeline: local `all_sinks`
  attempt,          \* build_mastering_pipeline: index into sink_attempts
  pipeline_modules, \* UniversalAudioSplitter.pipeline_modules
  pipeline_active,  \* UniversalAudioSplitter.pipeline_active
  log,              \* history: the external calls of the running operation
  faults,           \* history: external calls that exited non-zero so far
  ops,              \* history: operations started so far
  created,          \* history: the ids loaded by the running (or last) apply
  dirty,            \* history: a call of the running operation exited non-zero
  last,             \* history: the last finished operation
  open,             \* history: the cycles started and not yet returned
  queue,            \* the callbacks handed to GLib.idle_add, oldest first
  status,           \* AudioSplitterWindow.status_label: the text shown
  sliders,          \* the values of the volume and balance adjustments
  sent,             \* history: the volume-set calls of the last slider handler
  sink_manager,     \* BackendAudioManager.sink_manager is not None
  active_modules,   \* BackendAudioManager.active_modules: (type, id) pairs
  start_btn,        \* the windows' start_btn: sensitive
  stop_btn,         \* the windows' stop_btn: sensitive
  present,          \* the devices the server holds now, in list order
  shown,            \* left_combo / right_combo: the sink names of the model
  left_idx,         \* left_combo.get_selected()
  right_idx,        \* right_combo.get_selected()
  sink_name_map,    \* v2 AudioSplitterWindow.sink_name_map, in insertion order
  display_names,    \* v2: the items of front_combo, in order
  front_active,     \* v2: front_combo.get_active(), -1 with no item active
  arg_text,         \* the matcher alone: the blocks of the module list
  arg_code,         \* the matcher alone: the exit code of the query
  arg_patterns,     \* the matcher alone: the patterns of the last call
  result            \* the matcher alone: what the last call returned

vars == <<env, prog, modules, pc, op, plan, grp, pending, splitter,
          master_sink, all_sinks, attempt, pipeline_modules, pipeline_active,
          log, faults, ops, created, dirty, last, open, queue, status,
          sliders, sent, sink_manager, active_modules, start_btn, stop_btn,
          present, shown, left_idx, right_idx, sink_name_map, display_names,
          front_active, arg_text, arg_code, arg_patterns, result>>

\* The state of the matcher's own specification.
matcher == <<arg_text, arg_code, arg_patterns, result>>
\* The sliders and what their handlers sent.
mixer == <<sliders, sent, sink_manager, active_modules, start_btn, stop_btn,
           present, shown, left_idx, right_idx, sink_name_map, display_names,
           front_active>>
\* What no step inside a handler changes.
frame == <<env, prog, op, plan, ops, last, matcher, open, queue, status,
           mixer>>
\* The locals of the apply functions.
locals == <<splitter, master_sink, all_sinks, attempt>>
\* The fields of UniversalAudioSplitter.
fields == <<pipeline_modules, pipeline_active>>

\* The machine's devices, and the window of the backend variant as it is
\* constructed with no sink listed: Start enabled, Stop disabled.
NoWindow ==
  /\ sink_manager = FALSE /\ active_modules = <<>>
  /\ start_btn = TRUE /\ stop_btn = FALSE
  /\ present = <<"dev1", "dev2", "dev3">>
  /\ shown = <<>> /\ left_idx = 0 /\ right_idx = 0
  /\ sink_name_map = <<>> /\ display_names = <<>> /\ front_active = -1

\* The adjustments as the windows construct them: volumes in per cent,
\* balances from -100 (left) to 100 (right).
Defaults ==
  [front_vol |-> 100, front_balance |-> 0, rear_vol |-> 100,
   rear_balance |-> 0]

\* No module (the log entry of a call that names none).
NoMod == Mod("", "", "", "", "")

\* An apply's arguments: each output a device or "" (disabled; the mastering
\* GUI's id "disabled"), and which effects the settings enable.
NoPlan ==
  [front |-> "", rear_l |-> "", rear_r |-> "", limiter |-> FALSE,
   eq |-> FALSE, multicomp |-> FALSE, bypass |-> FALSE]

NoOp == [op |-> "none", plan |-> NoPlan, clean |-> TRUE, result |-> "ok",
         topo |-> <<>>]

\* A module with its id forgotten.
Desc(m) == [name |-> m.name, nm |-> m.nm, master |-> m.master, dev |-> m.dev]

\* The topology of the server: how many modules of each description.
Topo(mods) ==
  [d \in {Desc(mods[i]) : i \in 1..Len(mods)} |->
     Cardinality({i \in 1..Len(mods) : Desc(mods[i]) = d})]

\* What an external call may return.  The environments "flaky" and "faulty"
\* let up to MaxFaults calls fail, the first within one operation, the
\* second over up to MaxOps operations.  In the environment "down" the server
\* stops answering at some call: that call and every later one exit
\* non-zero.
Outcomes ==
  IF env \in {"flaky", "faulty"} /\ faults < MaxFaults THEN {TRUE, FALSE}
  ELSE IF env = "down" THEN (IF faults > 0 THEN {FALSE} ELSE {TRUE, FALSE})
  ELSE {TRUE}

\* A main loop that would start a callback while another one runs, as a
\* thread per callback would.
MainLoopAlwaysFree == TRUE

\* The one main loop of the application runs a handler or an idle callback
\* to its end before it takes the next one.
MainLoopFree == pc = "idle"

\* The programs whose handlers hand the cycle to GLib.idle_add; the
\* handlers of the others run the cycle themselves.
Queued == prog \in {"gui", "v2"}

\* The status texts of audio_splitter_gui.
Messages == {"ready", "building", "active", "failed", "stopping", "stopped"}

\* A click is taken when the main loop is free.  The flaky environment is
\* explored for one operation, on a server that is empty or holds a built
\* pipeline.
CanClick ==
  /\ MainLoopFree
  /\ ops < (IF env \in {"flaky", "down"} THEN 1 ELSE MaxOps)
  /\ Len(modules) <= MaxModules

\* A log entry: the call c, whether it exited 0, the module it names and
\* the ids a module-list query matched.
Entry(c, ok, m, ids) == [c |-> c, ok |-> ok, m |-> m, ids |-> ids]

\* run_cmd / subprocess.run: the call is issued (logged) and returns.
Issue(c, ok, m, ids) ==
  /\ log' = Append(log, Entry(c, ok, m, ids))
  /\ faults' = IF ok THEN faults ELSE faults + 1
  /\ dirty' = (dirty \/ ~ok)

\* pactl load-module: on success the server holds the module.
Load(ok, name, nm, master, dev) ==
  LET m == Mod(FreeId(modules), name, nm, master, dev) IN
  /\ modules' = IF ok THEN LoadModule(modules, m) ELSE modules
  /\ created' = IF ok THEN created \cup {m.id} ELSE created
  /\ Issue("load", ok, m, <<>>)

\* The module of an id, NoMod (with the id) when the server holds none.
ModOf(mods, id) ==
  LET hit == SelectSeq(mods, LAMBDA m : m.id = id) IN
  IF hit = <<>> THEN [NoMod EXCEPT !.id = id] ELSE Head(hit)

\* pactl unload-module <id>.
Unload(ok, id) ==
  /\ modules' = IF ok THEN UnloadModule(modules, id) ELSE modules
  /\ Issue("unload", ok, ModOf(modules, id), <<>>)

\* What a click handler that only hands callbacks to GLib.idle_add, and a
\* callback that only sets the status text, leave alone.
cycle == <<env, prog, modules, pc, op, plan, grp, pending, locals, fields,
           log, faults, created, dirty, last, open, matcher, mixer>>

\* A handler of a queued program: its callbacks cbs go to the end of the
\* idle queue.
Click(cbs) ==
  /\ Queued /\ CanClick
  /\ queue' = queue \o cbs
  /\ ops' = ops + 1
  /\ UNCHANGED <<cycle, status>>

\* update_status: the idle callback that sets the label's text.
SetText ==
  /\ prog = "gui" /\ MainLoopFree
  /\ queue # <<>> /\ Head(queue) \in Messages
  /\ status' = Head(queue)
  /\ queue' = Tail(queue)
  /\ UNCHANGED <<cycle, ops>>

\* A cycle starts: in a queued program when the main loop takes its
\* callback from the head of the idle queue, in the others inside the click
\* handler.  The selection pl is an input of the cycle.  The history of the
\* operation is reset.
Begin(o, pl) ==
  /\ IF Queued
     THEN /\ MainLoopFree /\ queue # <<>> /\ Head(queue) = o
          /\ queue' = Tail(queue) /\ ops' = ops
     ELSE /\ CanClick
          /\ queue' = queue /\ ops' = ops + 1
  /\ op' = o /\ plan' = pl
  /\ log' = <<>> /\ dirty' = FALSE
  /\ open' = open + 1
  /\ created' = IF o = "apply" THEN {} ELSE created
  /\ UNCHANGED <<env, prog, modules, locals, faults, last, matcher, status,
                 mixer>>

\* ------------------------------------------------------------ stop phase

\* A stop_pipeline of the GUI without the compressor group.
StopGroupsGuiNoCompressor ==
  << << <<"module-loopback">>, <<"source=">> \o NameAtoms("splitter_left") >>,
     << <<"module-loopback">>, <<"source=">> \o NameAtoms("splitter_right") >>,
     << <<"module-remap-source">>, <<"source_name=">> \o NameAtoms("splitter_left") >>,
     << <<"module-remap-source">>, <<"source_name=">> \o NameAtoms("splitter_right") >>,
     << <<"module-ladspa-sink">>, <<"sink_name=">> \o NameAtoms("limiter") >>,
     << <<"module-null-sink">>, <<"sink_name=">> \o NameAtoms("splitter") >> >>

\* A stop_pipeline of the GUI without the right-hand loopback group.
StopGroupsGuiNoRightLoopback ==
  << << <<"module-loopback">>, <<"source=">> \o NameAtoms("splitter_left") >>,
     << <<"module-remap-source">>, <<"source_name=">> \o NameAtoms("splitter_left") >>,
     << <<"module-remap-source">>, <<"source_name=">> \o NameAtoms("splitter_right") >>,
     << <<"module-ladspa-sink">>, <<"sink_name=">> \o NameAtoms("limiter") >>,
     << <<"module-ladspa-sink">>, <<"sink_name=">> \o NameAtoms("compressor") >>,
     << <<"module-null-sink">>, <<"sink_name=">> \o NameAtoms("splitter") >> >>

\* audio_splitter_gui.stop_pipeline: the pattern lists, in call order.
StopGroupsGui ==
  << << <<"module-loopback">>, <<"source=">> \o NameAtoms("splitter_left") >>,
     << <<"module-loopback">>, <<"source=">> \o NameAtoms("splitter_right") >>,
     << <<"module-remap-source">>, <<"source_name=">> \o NameAtoms("splitter_left") >>,
     << <<"module-remap-source">>, <<"source_name=">> \o NameAtoms("splitter_right") >>,
     << <<"module-ladspa-sink">>, <<"sink_name=">> \o NameAtoms("limiter") >>,
     << <<"module-ladspa-sink">>, <<"sink_name=">> \o NameAtoms("compressor") >>,
     << <<"module-null-sink">>, <<"sink_name=">> \o NameAtoms("splitter") >> >>

\* A stop_pipeline of version 2 that goes from the base sink to the
\* loopbacks.
StopGroupsV2BaseFirst ==
  << << <<"module-null-sink">>, <<"sink_name=">> \o NameAtoms(SPLITTER_SINK) >>,
     << <<"module-ladspa-sink">>, NameAtoms(COMPRESSOR_SINK) >>,
     << <<"module-remap-source">>, <<"rear_right_channel">> >>,
     << <<"module-remap-source">>, <<"rear_left_channel">> >>,
     << <<"module-remap-source">>, <<"front_channels">> >>,
     << <<"module-remap-source">>, NameAtoms(RIGHT_SRC) >>,
     << <<"module-remap-source">>, NameAtoms(LEFT_SRC) >>,
     << <<"module-loopback">>, <<"rear_right_channel">> >>,
     << <<"module-loopback">>, <<"rear_left_channel">> >>,
     << <<"module-loopback">>, <<"front_channels">> >>,
     << <<"module-loopback">>, NameAtoms(RIGHT_SRC) >>,
     << <<"module-loopback">>, NameAtoms(LEFT_SRC) >> >>

\* audio_splitter_gui_v2.stop_pipeline: the pattern lists, in call order.
StopGroupsV2 ==
  << << <<"module-loopback">>, NameAtoms(LEFT_SRC) >>,
     << <<"module-loopback">>, NameAtoms(RIGHT_SRC) >>,
     << <<"module-loopback">>, <<"front_channels">> >>,
     << <<"module-loopback">>, <<"rear_left_channel">> >>,
     << <<"module-loopback">>, <<"rear_right_channel">> >>,
     << <<"module-remap-source">>, NameAtoms(LEFT_SRC) >>,
     << <<"module-remap-source">>, NameAtoms(RIGHT_SRC) >>,
     << <<"module-remap-source">>, <<"front_channels">> >>,
     << <<"module-remap-source">>, <<"rear_left_channel">> >>,
     << <<"module-remap-source">>, <<"rear_right_channel">> >>,
     << <<"module-ladspa-sink">>, NameAtoms(COMPRESSOR_SINK) >>,
     << <<"module-null-sink">>, <<"sink_name=">> \o NameAtoms(SPLITTER_SINK) >> >>

\* audio_mastering_gui.stop_pipeline: the regular expressions, in list
\* order; each is two literals joined by ".*".
StopPatternsMastering ==
  << << {<<"module-loopback">>}, {<<"source=", "splitter", "_">>} >>,
     << {<<"module-remap-source">>},
        {<<"source_name=">> \o NameAtoms("splitter_left"),
         <<"source_name=">> \o NameAtoms("splitter_right")} >>,
     << {<<"module-ladspa-sink">>}, {<<"sink_name=">> \o NameAtoms(MULTICOMP_SINK)} >>,
     << {<<"module-ladspa-sink">>}, {<<"sink_name=">> \o NameAtoms(EQ_SINK)} >>,
     << {<<"module-ladspa-sink">>}, {<<"sink_name=">> \o NameAtoms(LIMITER_SINK)} >>,
     << {<<"module-ladspa-sink">>}, {<<"sink_name=">> \o NameAtoms(COMPRESSOR_SINK)} >>,
     << {<<"module-null-sink">>}, {<<"sink_name=">> \o NameAtoms(SPLITTER_SINK)} >>,
     << {<<"module-combine-sink">>}, {<<"sink_name=", "stereo_split">>} >> >>

\* The pattern groups the running program's stop_pipeline goes through.
StopGroups ==
  CASE prog = "gui" -> StopGroupsGui
    [] prog = "v2" -> StopGroupsV2
    [] prog = "mastering" -> StopPatternsMastering
    [] OTHER -> <<>>

\* The ids the running program's matcher finds for group g.
FindIds(g, code, text) ==
  IF prog = "mastering"
  THEN mastering_find_module_ids(StopGroups[g], code, text)
  ELSE find_module_ids(StopGroups[g], code, text)

\* A query that is made once more when it exits non-zero.
StopQueryRetries ==
  /\ pc = "stop" /\ pending = <<>> /\ grp <= Len(StopGroups)
  /\ \E ok \in Outcomes :
       LET ids == FindIds(grp, IF ok THEN 0 ELSE 1, ListModules(modules))
           again == ~ok /\ (log = <<>> \/ log[Len(log)].c # "list"
                            \/ log[Len(log)].ok)
       IN /\ pending' = ids
          /\ Issue("list", ok, NoMod, ids)
          /\ grp' = IF again THEN grp ELSE grp + 1
  /\ UNCHANGED <<frame, modules, pc, locals, fields, created>>

\* unload_modules_by_patterns, first half: find_module_ids runs the
\* module-list query for the next group and keeps the ids it matched.
StopQuery ==
  /\ pc = "stop" /\ pending = <<>> /\ grp <= Len(StopGroups)
  /\ \E ok \in Outcomes :
       LET ids == FindIds(grp, IF ok THEN 0 ELSE 1, ListModules(modules)) IN
       /\ pending' = ids
       /\ Issue("list", ok, NoMod, ids)
  /\ grp' = grp + 1
  /\ UNCHANGED <<frame, modules, pc, locals, fields, created>>

\* An unload loop that gives up at the first unload that exits non-zero.
StopUnloadGivesUp ==
  /\ pc = "stop" /\ pending # <<>>
  /\ \E ok \in Outcomes :
       /\ Unload(ok, Head(pending))
       /\ pending' = IF ok THEN Tail(pending) ELSE <<>>
  /\ UNCHANGED <<frame, pc, grp, locals, fields, created>>

\* An unload loop that unloads the first id found and drops the others.
StopUnloadFirstOnly ==
  /\ pc = "stop" /\ pending # <<>>
  /\ \E ok \in Outcomes : Unload(ok, Head(pending))
  /\ pending' = <<>>
  /\ UNCHANGED <<frame, pc, grp, locals, fields, created>>

\* unload_modules_by_patterns, second half: one unload per id found; the
\* exit code is not looked at.
StopUnload ==
  /\ pc = "stop" /\ pending # <<>>
  /\ \E ok \in Outcomes : Unload(ok, Head(pending))
  /\ pending' = Tail(pending)
  /\ UNCHANGED <<frame, pc, grp, locals, fields, created>>

\* Where apply continues after its stop_pipeline() call.
AfterStop ==
  CASE prog = "gui" -> "sinks"
    [] prog = "v2" -> "cards"
    [] prog = "mastering" -> "validate"
    [] OTHER -> "ret"

\* stop_pipeline returns (to on_stop, or into the apply that called it).
StopReturn ==
  /\ pc = "stop" /\ pending = <<>> /\ grp > Len(StopGroups)
  /\ pc' = IF op = "stop" THEN "ret" ELSE AfterStop
  /\ log' = Append(log, Entry("stopped", TRUE, NoMod, <<>>))
  /\ UNCHANGED <<frame, modules, grp, pending, locals, fields, faults,
                 created, dirty>>

\* on_stop / on_stop_clicked: stop_pipeline().
OnStop ==
  /\ prog \in {"gui", "v2", "mastering"}
  /\ Begin("stop", plan)
  /\ pc' = "stop" /\ grp' = 1 /\ pending' = <<>>
  /\ UNCHANGED fields

\* The text run_and_update of audio_splitter_gui hands to update_status
\* when the cycle is over.
Outcome ==
  IF op = "stop" THEN "stopped"
  ELSE IF pc = "raised" THEN "failed" ELSE "active"

\* The handler returns to the main loop: "ret" normally, "false" with the
\* result False, "raised" with an exception its caller catches and reports.
Return ==
  /\ pc \in {"ret", "false", "raised"}
  /\ pc' = "idle"
  /\ open' = open - 1
  /\ queue' = IF prog = "gui" THEN Append(queue, Outcome) ELSE queue
  /\ last' = [op |-> op, plan |-> plan, clean |-> ~dirty,
              result |-> IF pc = "ret" THEN "ok" ELSE pc,
              topo |-> Topo(modules)]
  /\ UNCHANGED <<env, prog, modules, op, plan, grp, pending, locals, fields,
                 log, faults, ops, created, dirty, matcher, status, mixer>>

\* ----------------------------------------------------------- build steps

\* One load-module call of an apply at position `here`; the apply goes on
\* at `next` with master_sink set to ms.
Step(here, ok, name, nm, master, dev, next, ms) ==
  /\ pc = here
  /\ Load(ok, name, nm, master, dev)
  /\ pc' = next
  /\ master_sink' = ms
  /\ UNCHANGED <<frame, grp, pending, splitter, all_sinks, attempt, fields>>

\* One external call of an apply that loads nothing.
Call(here, c, ok, next) ==
  /\ pc = here
  /\ Issue(c, ok, NoMod, <<>>)
  /\ pc' = next
  /\ UNCHANGED <<frame, modules, grp, pending, locals, fields, created>>

\* The loopback loads of the stereo programs, in source order, and whether
\* the plan asks for each (`if front_sink:` guards the first two).
LoopStages == <<"front_l", "front_r", "rear_l", "rear_r">>

Wanted(stage, pl) ==
  CASE stage \in {"front_l", "front_r"} -> pl.front # ""
    [] stage = "rear_l" -> pl.rear_l # ""
    [] stage = "rear_r" -> pl.rear_r # ""
    [] OTHER -> FALSE

\* The first loopback load at or after stage i the plan asks for; `done`
\* when there is none.
Route(i, pl, done) ==
  LET todo == {j \in i..Len(LoopStages) : Wanted(LoopStages[j], pl)} IN
  IF todo = {} THEN done
  ELSE LoopStages[CHOOSE j \in todo : \A k \in todo : j <= k]

\* The sink names of `pactl list short sinks`: the second field of every
\* line; the empty list when the query exited non-zero.
SinkNames(code, out) ==
  IF code = 0 THEN {out[i][2] : i \in 1..Len(out)} ELSE {}

\* ------------------------------------------------------ audio_splitter_gui

\* The selections of the three output combo boxes the GUIs are explored
\* with (front, rear left, rear right; "" is Disabled): none, the front
\* alone, a rear output alone, and all three.
Outputs ==
  { <<"", "", "">>, <<"dev1", "", "">>, <<"", "dev2", "">>,
    <<"dev1", "dev2", "dev3">> }

\* The plans of the GUI: a selection of outputs; the limiter settings zero
\* or not.
GuiPlans ==
  {[NoPlan EXCEPT !.front = o[1], !.rear_l = o[2], !.rear_r = o[3],
                  !.limiter = lim] :
     o \in Outputs, lim \in BOOLEAN}

\* on_apply: the text "Building ..." and run_and_update go to the idle
\* queue.
GuiOnApply == prog = "gui" /\ Click(<<"building", "apply">>)

\* on_stop: the text "Stopping ..." and run_and_update go to the idle queue.
GuiOnStop == prog = "gui" /\ Click(<<"stopping", "stop">>)

\* run_and_update -> apply_pipeline: stop_pipeline() comes first.
GuiApply ==
  /\ prog = "gui"
  /\ \E pl \in GuiPlans : Begin("apply", pl)
  /\ pc' = "stop" /\ grp' = 1 /\ pending' = <<>>
  /\ UNCHANGED fields

\* A sink query after which the splitter is created whatever exists.
GuiSinksAlwaysCreates ==
  /\ prog = "gui" /\ pc = "sinks"
  /\ \E ok \in Outcomes : Issue("sinks", ok, NoMod, <<>>)
  /\ splitter' = SPLITTER_SINK
  /\ master_sink' = splitter'
  /\ pc' = "base"
  /\ UNCHANGED <<frame, modules, grp, pending, all_sinks, attempt, fields,
                 created>>

\* The sink query and the choice of the splitter: reuse "splitter", else
\* adopt "null", else create.
GuiSinks ==
  /\ prog = "gui" /\ pc = "sinks"
  /\ \E ok \in Outcomes :
       LET all_existing == SinkNames(IF ok THEN 0 ELSE 1, ShortSinks(modules))
           reuse == IF SPLITTER_SINK \in all_existing THEN SPLITTER_SINK
                    ELSE IF "null" \in all_existing THEN "null" ELSE ""
       IN /\ Issue("sinks", ok, NoMod, <<>>)
          /\ splitter' = IF reuse = "" THEN SPLITTER_SINK ELSE reuse
          /\ master_sink' = splitter'
          /\ pc' = IF reuse = "" THEN "base"
                   ELSE IF plan.limiter THEN "limiter" ELSE "compressor"
  /\ UNCHANGED <<frame, modules, grp, pending, all_sinks, attempt, fields,
                 created>>

GuiBase ==
  /\ prog = "gui"
  /\ \E ok \in Outcomes :
       Step("base", ok, "module-null-sink", SPLITTER_SINK, "", "",
            IF plan.limiter THEN "limiter" ELSE "compressor", master_sink)

GuiLimiter ==
  /\ prog = "gui"
  /\ \E ok \in Outcomes :
       Step("limiter", ok, "module-ladspa-sink", LIMITER_SINK, master_sink,
            "", "compressor", LIMITER_SINK)

GuiCompressor ==
  /\ prog = "gui"
  /\ \E ok \in Outcomes :
       Step("compressor", ok, "module-ladspa-sink", COMPRESSOR_SINK,
            master_sink, "", "default", master_sink)

GuiDefault ==
  /\ prog = "gui"
  /\ \E ok \in Outcomes : Call("default", "default", ok, "left")

GuiLeft ==
  /\ prog = "gui"
  /\ \E ok \in Outcomes :
       Step("left", ok, "module-remap-source", LEFT_SRC, splitter, "",
            "right", master_sink)

GuiRight ==
  /\ prog = "gui"
  /\ \E ok \in Outcomes :
       Step("right", ok, "module-remap-source", RIGHT_SRC, splitter, "",
            Route(1, plan, "ret"), master_sink)

GuiFrontL ==
  /\ prog = "gui"
  /\ \E ok \in Outcomes :
       Step("front_l", ok, "module-loopback", "", LEFT_SRC, plan.front,
            "front_r", master_sink)

GuiFrontR ==
  /\ prog = "gui"
  /\ \E ok \in Outcomes :
       Step("front_r", ok, "module-loopback", "", RIGHT_SRC, plan.front,
            Route(3, plan, "ret"), master_sink)

GuiRearL ==
  /\ prog = "gui"
  /\ \E ok \in Outcomes :
       Step("rear_l", ok, "module-loopback", "", LEFT_SRC, plan.rear_l,
            Route(4, plan, "ret"), master_sink)

GuiRearR ==
  /\ prog = "gui"
  /\ \E ok \in Outcomes :
       Step("rear_r", ok, "module-loopback", "", RIGHT_SRC, plan.rear_r,
            "ret", master_sink)

GuiSteps ==
  \/ GuiOnApply \/ GuiOnStop \/ SetText
  \/ GuiApply \/ GuiSinks \/ GuiBase \/ GuiLimiter \/ GuiCompressor
  \/ GuiDefault \/ GuiLeft \/ GuiRight \/ GuiFrontL \/ GuiFrontR
  \/ GuiRearL \/ GuiRearR

\* --------------------------------------------------- audio_splitter_gui_v2

\* The names pactl_sinks leaves out.
internal_sinks == {SPLITTER_SINK, COMPRESSOR_SINK, "null"}

\* The loop of pactl_sinks over out.splitlines(), a line being the list of
\* its fields: an empty line is skipped; the second field of a line with
\* two fields or more is kept when it is not internal.
RECURSIVE valid_sinks(_)
valid_sinks(out) ==
  IF out = <<>> THEN <<>>
  ELSE LET parts == Head(out) IN
       (IF parts # <<>> /\ Len(parts) >= 2 /\ parts[2] \notin internal_sinks
        THEN <<parts[2]>> ELSE <<>>)
       \o valid_sinks(Tail(out))

\* A pactl_sinks that keeps the internal sinks.
RECURSIVE pactl_sinks_unfiltered(_, _)
pactl_sinks_unfiltered(code, out) ==
  IF code # 0 \/ out = <<>> THEN <<>>
  ELSE (IF Len(Head(out)) >= 2 THEN <<Head(out)[2]>> ELSE <<>>)
       \o pactl_sinks_unfiltered(code, Tail(out))

\* pactl_sinks of audio_splitter_gui and of audio_splitter_gui_v2: the
\* names of the sinks that are not internal, in the order of the query's
\* output; the empty list when the query exited non-zero.
pactl_sinks(code, out) == IF code # 0 THEN <<>> ELSE valid_sinks(out)

\* The plans of version 2: the outputs, and whether the compressor is
\* bypassed.
V2Plans ==
  {[NoPlan EXCEPT !.front = o[1], !.rear_l = o[2], !.rear_r = o[3],
                  !.bypass = b] :
     o \in Outputs, b \in BOOLEAN}

\* The loopback loads of version 2, in source order.
V2LoopStages == <<"lb_front", "lb_rear_l", "lb_rear_r">>

V2Wanted(stage, pl) ==
  CASE stage = "lb_front" -> pl.front # ""
    [] stage = "lb_rear_l" -> pl.rear_l # ""
    [] stage = "lb_rear_r" -> pl.rear_r # ""
    [] OTHER -> FALSE

V2Route(i, pl) ==
  LET todo == {j \in i..Len(V2LoopStages) : V2Wanted(V2LoopStages[j], pl)} IN
  IF todo = {} THEN "ret"
  ELSE V2LoopStages[CHOOSE j \in todo : \A k \in todo : j <= k]

\* on_apply (on_upmix_toggled calls it too): apply_pipeline goes to the
\* idle queue.
V2OnApply == prog = "v2" /\ Click(<<"apply">>)

\* on_stop: stop_pipeline goes to the idle queue.
V2OnStop == prog = "v2" /\ Click(<<"stop">>)

\* apply_pipeline: stop_pipeline() comes first.
V2Apply ==
  /\ prog = "v2"
  /\ \E pl \in V2Plans : Begin("apply", pl)
  /\ pc' = "stop" /\ grp' = 1 /\ pending' = <<>>
  /\ UNCHANGED fields

\* set_pro_audio_profile: the card query; the machine has no card with a
\* pro-audio profile, so no profile is set.
V2Cards ==
  /\ prog = "v2"
  /\ \E ok \in Outcomes : Call("cards", "cards", ok, "sinks")

\* sinks = pactl_sinks() and the choice of the splitter.
V2Sinks ==
  /\ prog = "v2" /\ pc = "sinks"
  /\ \E ok \in Outcomes :
       LET sinks == Range(pactl_sinks(IF ok THEN 0 ELSE 1,
                                      ShortSinks(modules)))
           reuse == IF SPLITTER_SINK \in sinks THEN SPLITTER_SINK
                    ELSE IF "null" \in sinks THEN "null" ELSE ""
       IN /\ Issue("sinks", ok, NoMod, <<>>)
          /\ splitter' = IF reuse = "" THEN SPLITTER_SINK ELSE reuse
          /\ pc' = IF reuse = "" THEN "base"
                   ELSE IF plan.bypass THEN "default" ELSE "compressor"
  /\ UNCHANGED <<frame, modules, grp, pending, master_sink, all_sinks,
                 attempt, fields, created>>

V2Base ==
  /\ prog = "v2"
  /\ \E ok \in Outcomes :
       Step("base", ok, "module-null-sink", SPLITTER_SINK, "", "",
            IF plan.bypass THEN "default" ELSE "compressor", master_sink)

V2Compressor ==
  /\ prog = "v2"
  /\ \E ok \in Outcomes :
       Step("compressor", ok, "module-ladspa-sink", COMPRESSOR_SINK, splitter,
            "", "default", master_sink)

\* set-default-sink, of the splitter (bypass) or of the compressor.
V2Default ==
  /\ prog = "v2"
  /\ \E ok \in Outcomes : Call("default", "default", ok, "front_channels")

V2FrontChannels ==
  /\ prog = "v2"
  /\ \E ok \in Outcomes :
       Step("front_channels", ok, "module-remap-source", "front_channels",
            splitter, "", "rear_left_channel", master_sink)

V2RearLeftChannel ==
  /\ prog = "v2"
  /\ \E ok \in Outcomes :
       Step("rear_left_channel", ok, "module-remap-source",
            "rear_left_channel", splitter, "", "rear_right_channel",
            master_sink)

V2RearRightChannel ==
  /\ prog = "v2"
  /\ \E ok \in Outcomes :
       Step("rear_right_channel", ok, "module-remap-source",
            "rear_right_channel", splitter, "", V2Route(1, plan), master_sink)

V2LoopFront ==
  /\ prog = "v2"
  /\ \E ok \in Outcomes :
       Step("lb_front", ok, "module-loopback", "", "front_channels",
            plan.front, V2Route(2, plan), master_sink)

V2LoopRearL ==
  /\ prog = "v2"
  /\ \E ok \in Outcomes :
       Step("lb_rear_l", ok, "module-loopback", "", "rear_left_channel",
            plan.rear_l, V2Route(3, plan), master_sink)

V2LoopRearR ==
  /\ prog = "v2"
  /\ \E ok \in Outcomes :
       Step("lb_rear_r", ok, "module-loopback", "", "rear_right_channel",
            plan.rear_r, "ret", master_sink)

V2Steps ==
  \/ V2OnApply \/ V2OnStop
  \/ V2Apply \/ V2Cards \/ V2Sinks \/ V2Base \/ V2Compressor \/ V2Default
  \/ V2FrontChannels \/ V2RearLeftChannel \/ V2RearRightChannel
  \/ V2LoopFront \/ V2LoopRearL \/ V2LoopRearR

\* ---------------------------------------------------- audio_mastering_gui

\* The plans of the mastering GUI: every choice of effects with the front
\* output, and every choice of rear outputs (none included) with the
\* multiband compressor alone.
MasteringPlans ==
  {[NoPlan EXCEPT !.front = "dev1", !.limiter = lim, !.eq = e,
                  !.multicomp = mc] :
     lim \in BOOLEAN, e \in BOOLEAN, mc \in BOOLEAN}
  \cup
  {[NoPlan EXCEPT !.rear_l = l, !.rear_r = r, !.multicomp = TRUE] :
     l \in {"", "dev2"}, r \in {"", "dev3"}}

\* The names build_mastering_pipeline tries for the base sink.
sink_attempts == <<SPLITTER_SINK, "null", "mastering_base", "audio_splitter">>

\* The effect stages in chain order, and whether the settings enable each.
EffectStages == <<"limiter", "eq", "multicomp">>

Enabled(stage, pl) ==
  CASE stage = "limiter" -> pl.limiter
    [] stage = "eq" -> pl.eq
    [] stage = "multicomp" -> pl.multicomp
    [] OTHER -> FALSE

\* A chain that takes every effect stage, enabled or not.
ChainEveryStage(i, pl) ==
  IF i > Len(EffectStages) THEN "left" ELSE EffectStages[i]

\* The first enabled effect at or after stage i; the left source when
\* there is none.
Chain(i, pl) ==
  LET todo == {j \in i..Len(EffectStages) : Enabled(EffectStages[j], pl)} IN
  IF todo = {} THEN "left"
  ELSE EffectStages[CHOOSE j \in todo : \A k \in todo : j <= k]

\* on_apply_clicked -> build_mastering_pipeline: stop_pipeline() comes
\* first.
MasteringApply ==
  /\ prog = "mastering"
  /\ \E pl \in MasteringPlans : Begin("apply", pl)
  /\ pc' = "stop" /\ grp' = 1 /\ pending' = <<>>
  /\ UNCHANGED fields

\* The validation of the outputs: ValueError when all are disabled.
MasteringValidate ==
  /\ prog = "mastering" /\ pc = "validate"
  /\ pc' = IF plan.front = "" /\ plan.rear_l = "" /\ plan.rear_r = ""
           THEN "raised" ELSE "sinks"
  /\ UNCHANGED <<frame, modules, grp, pending, locals, fields, log, faults,
                 created, dirty>>

\* The sink query: all_sinks, internal sinks included.
MasteringSinks ==
  /\ prog = "mastering" /\ pc = "sinks"
  /\ \E ok \in Outcomes :
       /\ Issue("sinks", ok, NoMod, <<>>)
       /\ all_sinks' = SinkNames(IF ok THEN 0 ELSE 1, ShortSinks(modules))
  /\ attempt' = 1
  /\ pc' = "base"
  /\ UNCHANGED <<frame, modules, grp, pending, splitter, master_sink, fields,
                 created>>

\* One round of the loop over sink_attempts: reuse the name when a sink has
\* it, else try to create it (break on success, next name on failure);
\* RuntimeError when the names are exhausted.
MasteringBase ==
  /\ prog = "mastering" /\ pc = "base"
  /\ IF attempt > Len(sink_attempts)
     THEN /\ pc' = "raised"
          /\ UNCHANGED <<modules, locals, log, faults, created, dirty>>
     ELSE LET attempt_name == sink_attempts[attempt] IN
          IF attempt_name \in all_sinks
          THEN /\ splitter' = attempt_name
               /\ master_sink' = attempt_name
               /\ pc' = Chain(1, plan)
               /\ UNCHANGED <<modules, all_sinks, attempt, log, faults,
                              created, dirty>>
          ELSE \E ok \in Outcomes :
                 /\ Load(ok, "module-null-sink", attempt_name, "", "")
                 /\ splitter' = IF ok THEN attempt_name ELSE splitter
                 /\ master_sink' = IF ok THEN attempt_name ELSE master_sink
                 /\ attempt' = IF ok THEN attempt ELSE attempt + 1
                 /\ pc' = IF ok THEN Chain(1, plan) ELSE "base"
                 /\ UNCHANGED all_sinks
  /\ UNCHANGED <<frame, grp, pending, fields>>

\* A creation that raises RuntimeError when the load exits non-zero.
Must(here, ok, name, nm, master, next, ms) ==
  Step(here, ok, name, nm, master, "", IF ok THEN next ELSE "raised",
       IF ok THEN ms ELSE master_sink)

MasteringLimiter ==
  /\ prog = "mastering"
  /\ \E ok \in Outcomes :
       Must("limiter", ok, "module-ladspa-sink", LIMITER_SINK, master_sink,
            Chain(2, plan), LIMITER_SINK)

\* An EQ that hangs on the base sink whatever came before it.
MasteringEqOnBase ==
  /\ prog = "mastering"
  /\ \E ok \in Outcomes :
       Must("eq", ok, "module-ladspa-sink", EQ_SINK, splitter,
            Chain(3, plan), EQ_SINK)

MasteringEq ==
  /\ prog = "mastering"
  /\ \E ok \in Outcomes :
       Must("eq", ok, "module-ladspa-sink", EQ_SINK, master_sink,
            Chain(3, plan), EQ_SINK)

MasteringMulticomp ==
  /\ prog = "mastering"
  /\ \E ok \in Outcomes :
       Must("multicomp", ok, "module-ladspa-sink", MULTICOMP_SINK,
            master_sink, "left", MULTICOMP_SINK)

MasteringLeft ==
  /\ prog = "mastering"
  /\ \E ok \in Outcomes :
       Must("left", ok, "module-remap-source", LEFT_SRC, master_sink,
            "right", master_sink)

MasteringRight ==
  /\ prog = "mastering"
  /\ \E ok \in Outcomes :
       Must("right", ok, "module-remap-source", RIGHT_SRC, master_sink,
            Route(1, plan, "default"), master_sink)

MasteringFrontL ==
  /\ prog = "mastering"
  /\ \E ok \in Outcomes :
       Step("front_l", ok, "module-loopback", "", LEFT_SRC, plan.front,
            "front_r", master_sink)

MasteringFrontR ==
  /\ prog = "mastering"
  /\ \E ok \in Outcomes :
       Step("front_r", ok, "module-loopback", "", RIGHT_SRC, plan.front,
            Route(3, plan, "default"), master_sink)

\* A rear-left loopback fed by the right channel source.
MasteringRearLFromRight ==
  /\ prog = "mastering"
  /\ \E ok \in Outcomes :
       Step("rear_l", ok, "module-loopback", "", RIGHT_SRC, plan.rear_l,
            Route(4, plan, "default"), master_sink)

MasteringRearL ==
  /\ prog = "mastering"
  /\ \E ok \in Outcomes :
       Step("rear_l", ok, "module-loopback", "", LEFT_SRC, plan.rear_l,
            Route(4, plan, "default"), master_sink)

MasteringRearR ==
  /\ prog = "mastering"
  /\ \E ok \in Outcomes :
       Step("rear_r", ok, "module-loopback", "", RIGHT_SRC, plan.rear_r,
            "default", master_sink)

MasteringDefault ==
  /\ prog = "mastering"
  /\ \E ok \in Outcomes : Call("default", "default", ok, "streams")

\* The modules that play into a sink (a sink input each): the loopbacks and
\* the effect sinks.
StreamIds(mods) ==
  LET playing == SelectSeq(mods, LAMBDA m :
                   m.name \in {"module-loopback", "module-ladspa-sink"}) IN
  [i \in 1..Len(playing) |-> playing[i].id]

\* move_streams_to_mastering_chain: the sink-input query, then one
\* move-sink-input call per stream.  A move loads and unloads nothing and
\* its exit code is not looked at; nothing is moved when the query exits
\* non-zero.
MasteringStreams ==
  /\ prog = "mastering" /\ pc = "streams"
  /\ \E ok \in Outcomes :
       LET ids == IF ok THEN StreamIds(modules) ELSE <<>> IN
       /\ log' = Append(log, Entry("sink-inputs", ok, NoMod, <<>>))
                   \o [i \in 1..Len(ids) |->
                        Entry("move", TRUE, ModOf(modules, ids[i]), <<>>)]
       /\ faults' = IF ok THEN faults ELSE faults + 1
       /\ dirty' = (dirty \/ ~ok)
  /\ pc' = "ret"
  /\ UNCHANGED <<frame, modules, grp, pending, locals, fields, created>>

MasteringSteps ==
  \/ MasteringApply \/ MasteringValidate \/ MasteringSinks \/ MasteringBase
  \/ MasteringLimiter \/ MasteringEq \/ MasteringMulticomp
  \/ MasteringLeft \/ MasteringRight \/ MasteringFrontL \/ MasteringFrontR
  \/ MasteringRearL \/ MasteringRearR \/ MasteringDefault
  \/ MasteringStreams

\* ------------------------------------------------ universal_audio_splitter

\* The plans of the universal splitter: each output a device or None.
UniversalPlans ==
  {[NoPlan EXCEPT !.front = o[1], !.rear_l = o[2], !.rear_r = o[3]] :
     o \in Outputs}

\* A create_audio_pipeline that does not stop the existing pipeline.
UniversalCreateNoStop ==
  /\ prog = "universal"
  /\ \E pl \in UniversalPlans : Begin("apply", pl)
  /\ pc' = "base" /\ pending' = <<>>
  /\ UNCHANGED <<grp, fields>>

\* start_pipeline -> create_audio_pipeline: stop_audio_pipeline() comes
\* first; it goes through the recorded modules in reverse.
UniversalCreate ==
  /\ prog = "universal"
  /\ \E pl \in UniversalPlans : Begin("apply", pl)
  /\ pc' = "ustop" /\ pending' = Reverse(pipeline_modules)
  /\ UNCHANGED <<grp, fields>>

\* stop_pipeline (the window's) -> stop_audio_pipeline().
UniversalStop ==
  /\ prog = "universal"
  /\ Begin("stop", plan)
  /\ pc' = "ustop" /\ pending' = Reverse(pipeline_modules)
  /\ UNCHANGED <<grp, fields>>

\* stop_audio_pipeline: one unload per recorded module, check=False.
UniversalUnload ==
  /\ prog = "universal" /\ pc \in {"ustop", "rollback"} /\ pending # <<>>
  /\ \E ok \in Outcomes : Unload(ok, Head(pending))
  /\ pending' = Tail(pending)
  /\ UNCHANGED <<frame, pc, grp, locals, fields, created>>

\* stop_audio_pipeline returns: at once when nothing was recorded, else
\* with the record cleared and the pipeline inactive.  After a rollback
\* create_audio_pipeline returns False.
UniversalStopReturn ==
  /\ prog = "universal" /\ pc \in {"ustop", "rollback"} /\ pending = <<>>
  /\ pipeline_modules' = <<>>
  /\ pipeline_active' = IF pipeline_modules = <<>> THEN pipeline_active
                        ELSE FALSE
  /\ pc' = IF pc = "rollback" THEN "false"
           ELSE IF op = "stop" THEN "ret" ELSE "base"
  /\ log' = Append(log, Entry("stopped", TRUE, NoMod, <<>>))
  /\ UNCHANGED <<frame, modules, grp, pending, locals, faults, created,
                 dirty>>

\* A load whose rollback goes through the recorded modules in creation
\* order.
RecordForward(here, ok, check, name, nm, master, dev, next) ==
  /\ pc = here
  /\ Load(ok, name, nm, master, dev)
  /\ pipeline_modules' = IF ok THEN Append(pipeline_modules, FreeId(modules))
                         ELSE pipeline_modules
  /\ pc' = IF ok \/ ~check THEN next ELSE "rollback"
  /\ pending' = IF ok \/ ~check THEN pending ELSE pipeline_modules
  /\ UNCHANGED <<frame, grp, locals, pipeline_active>>

\* A load of create_audio_pipeline: on success the id is recorded; on
\* failure, with check=True, CalledProcessError takes the call to the
\* except clause and its stop_audio_pipeline(), with check=False the call
\* goes on.
Record(here, ok, check, name, nm, master, dev, next) ==
  /\ pc = here
  /\ Load(ok, name, nm, master, dev)
  /\ pipeline_modules' = IF ok THEN Append(pipeline_modules, FreeId(modules))
                         ELSE pipeline_modules
  /\ pc' = IF ok \/ ~check THEN next ELSE "rollback"
  /\ pending' = IF ok \/ ~check THEN pending ELSE Reverse(pipeline_modules)
  /\ UNCHANGED <<frame, grp, locals, pipeline_active>>

UniversalBase ==
  /\ prog = "universal"
  /\ \E ok \in Outcomes :
       Record("base", ok, TRUE, "module-null-sink", "universal_splitter", "",
              "", "compressor")

UniversalCompressor ==
  /\ prog = "universal"
  /\ \E ok \in Outcomes :
       Record("compressor", ok, FALSE, "module-ladspa-sink",
              "universal_compressor", "universal_splitter", "", "left")

UniversalLeft ==
  /\ prog = "universal"
  /\ \E ok \in Outcomes :
       Record("left", ok, TRUE, "module-remap-source", "universal_left",
              "universal_splitter", "", "right")

UniversalRight ==
  /\ prog = "universal"
  /\ \E ok \in Outcomes :
       Record("right", ok, TRUE, "module-remap-source", "universal_right",
              "universal_splitter", "", Route(1, plan, "default"))

UniversalFrontL ==
  /\ prog = "universal"
  /\ \E ok \in Outcomes :
       Record("front_l", ok, TRUE, "module-loopback", "", "universal_left",
              plan.front, "front_r")

UniversalFrontR ==
  /\ prog = "universal"
  /\ \E ok \in Outcomes :
       Record("front_r", ok, TRUE, "module-loopback", "", "universal_right",
              plan.front, Route(3, plan, "default"))

UniversalRearL ==
  /\ prog = "universal"
  /\ \E ok \in Outcomes :
       Record("rear_l", ok, TRUE, "module-loopback", "", "universal_left",
              plan.rear_l, Route(4, plan, "default"))

UniversalRearR ==
  /\ prog = "universal"
  /\ \E ok \in Outcomes :
       Record("rear_r", ok, TRUE, "module-loopback", "", "universal_right",
              plan.rear_r, "default")

\* set-default-sink (check=False), then pipeline_active = True and the
\* call returns True.
UniversalDefault ==
  /\ prog = "universal" /\ pc = "default"
  /\ \E ok \in Outcomes : Issue("default", ok, NoMod, <<>>)
  /\ pipeline_active' = TRUE
  /\ pc' = "ret"
  /\ UNCHANGED <<frame, modules, grp, pending, locals, pipeline_modules,
                 created>>

UniversalSteps ==
  \/ UniversalCreate \/ UniversalStop \/ UniversalUnload
  \/ UniversalStopReturn \/ UniversalBase \/ UniversalCompressor
  \/ UniversalLeft \/ UniversalRight \/ UniversalFrontL \/ UniversalFrontR
  \/ UniversalRearL \/ UniversalRearR \/ UniversalDefault

\* ------------------------------------------------------- specifications

\* Servers an operation may find: empty; holding a generic null sink that
\* some other client loaded; holding leftovers of an earlier run.
InitServers ==
  { <<>>,
    << Mod("1", "module-null-sink", "", "", "") >>,
    << Mod("1", "module-null-sink", SPLITTER_SINK, "", ""),
       Mod("2", "module-loopback", "", LEFT_SRC, "dev1") >> }

\* The server after a full, clean build of each program on an empty server.
BuiltGui ==
  << Mod("1", "module-null-sink", SPLITTER_SINK, "", ""),
     Mod("2", "module-ladspa-sink", LIMITER_SINK, SPLITTER_SINK, ""),
     Mod("3", "module-ladspa-sink", COMPRESSOR_SINK, LIMITER_SINK, ""),
     Mod("4", "module-remap-source", LEFT_SRC, SPLITTER_SINK, ""),
     Mod("5", "module-remap-source", RIGHT_SRC, SPLITTER_SINK, ""),
     Mod("6", "module-loopback", "", LEFT_SRC, "dev1"),
     Mod("7", "module-loopback", "", RIGHT_SRC, "dev1"),
     Mod("8", "module-loopback", "", LEFT_SRC, "dev2"),
     Mod("9", "module-loopback", "", RIGHT_SRC, "dev3") >>

BuiltV2 ==
  << Mod("1", "module-null-sink", SPLITTER_SINK, "", ""),
     Mod("2", "module-ladspa-sink", COMPRESSOR_SINK, SPLITTER_SINK, ""),
     Mod("3", "module-remap-source", "front_channels", SPLITTER_SINK, ""),
     Mod("4", "module-remap-source", "rear_left_channel", SPLITTER_SINK, ""),
     Mod("5", "module-remap-source", "rear_right_channel", SPLITTER_SINK, ""),
     Mod("6", "module-loopback", "", "front_channels", "dev1"),
     Mod("7", "module-loopback", "", "rear_left_channel", "dev2"),
     Mod("8", "module-loopback", "", "rear_right_channel", "dev3") >>

BuiltMastering ==
  << Mod("1", "module-null-sink", SPLITTER_SINK, "", ""),
     Mod("2", "module-ladspa-sink", LIMITER_SINK, SPLITTER_SINK, ""),
     Mod("3", "module-ladspa-sink", MULTICOMP_SINK, LIMITER_SINK, ""),
     Mod("4", "module-remap-source", LEFT_SRC, MULTICOMP_SINK, ""),
     Mod("5", "module-remap-source", RIGHT_SRC, MULTICOMP_SINK, ""),
     Mod("6", "module-loopback", "", LEFT_SRC, "dev1"),
     Mod("7", "module-loopback", "", RIGHT_SRC, "dev1") >>

\* What an earlier instance of the universal splitter left loaded.
BuiltUniversal ==
  << Mod("1", "module-null-sink", "universal_splitter", "", ""),
     Mod("2", "module-ladspa-sink", "universal_compressor",
         "universal_splitter", ""),
     Mod("3", "module-remap-source", "universal_left", "universal_splitter", ""),
     Mod("4", "module-remap-source", "universal_right", "universal_splitter", ""),
     Mod("5", "module-loopback", "", "universal_left", "dev1"),
     Mod("6", "module-loopback", "", "universal_right", "dev1"),
     Mod("7", "module-loopback", "", "universal_left", "dev2"),
     Mod("8", "module-loopback", "", "universal_right", "dev3") >>

Built(p) ==
  CASE p = "gui" -> BuiltGui
    [] p = "v2" -> BuiltV2
    [] p = "mastering" -> BuiltMastering
    [] p = "universal" -> BuiltUniversal
    [] OTHER -> <<>>

Programs == {"gui", "v2", "mastering", "universal"}

\* The state after the window of program p is constructed.
InitProg(p) ==
  /\ prog = p
  /\ env \in {"reliable", "flaky"}
  /\ modules \in IF env = "reliable" THEN InitServers ELSE {<<>>, Built(p)}
  /\ pc = "idle" /\ op = "none" /\ plan = NoPlan
  /\ grp = 1 /\ pending = <<>>
  /\ splitter = "" /\ master_sink = "" /\ all_sinks = {} /\ attempt = 1
  /\ pipeline_modules = <<>> /\ pipeline_active = FALSE
  /\ log = <<>> /\ faults = 0 /\ ops = 0 /\ created = {} /\ dirty = FALSE
  /\ last = NoOp /\ open = 0 /\ queue = <<>> /\ status = "ready"
  /\ sliders = Defaults /\ sent = <<>> /\ NoWindow
  /\ arg_text = <<>> /\ arg_code = 0 /\ arg_patterns = <<>> /\ result = <<>>

StopSteps == StopQuery \/ StopUnload \/ StopReturn \/ OnStop \/ Return

Init == \E p \in Programs : InitProg(p)

Next ==
  \/ StopSteps \/ GuiSteps \/ V2Steps \/ MasteringSteps \/ UniversalSteps

Spec == Init /\ [][Next]_vars

\* ------------------------------------------------------ the matcher alone

\* The characters of the matcher's texts: one letter in both cases.
Alphabet == {"a", "A"}

\* The strings over the alphabet of length lo to hi.
Strings(lo, hi) == UNION {[1..n -> Alphabet] : n \in lo..hi}

\* The module lists: two blocks, ids "1" and "2", each with one line of at
\* most MaxPatLen characters under its header.
Texts ==
  {[i \in 1..2 |-> << <<"Module #", ToString(i)>>, f[i] >>] :
     f \in [1..2 -> Strings(0, MaxPatLen)]}

\* The pattern lists: one or two patterns of 1 to MaxPatLen characters.
PatternLists ==
  LET P == Strings(1, MaxPatLen) IN
  {<<x>> : x \in P} \cup {<<x, y>> : x \in P, y \in P}

\* A module list is on the server; no call was made.
InitMatch ==
  /\ prog = "matcher" /\ env = "reliable"
  /\ arg_text \in Texts
  /\ arg_code = 0 /\ arg_patterns = <<>> /\ result = <<>>
  /\ modules = <<>> /\ pc = "idle" /\ op = "none" /\ plan = NoPlan
  /\ grp = 1 /\ pending = <<>>
  /\ splitter = "" /\ master_sink = "" /\ all_sinks = {} /\ attempt = 1
  /\ pipeline_modules = <<>> /\ pipeline_active = FALSE
  /\ log = <<>> /\ faults = 0 /\ ops = 0 /\ created = {} /\ dirty = FALSE
  /\ last = NoOp /\ open = 0 /\ queue = <<>> /\ status = "ready"
  /\ sliders = Defaults /\ sent = <<>> /\ NoWindow

\* The call find_module_ids(patterns); the query exits 0 or not.
MatchCall ==
  /\ prog = "matcher" /\ arg_patterns = <<>>
  /\ \E ps \in PatternLists, c \in {0, 1} :
       /\ arg_patterns' = ps
       /\ arg_code' = c
       /\ result' = find_module_ids(ps, c, arg_text)
  /\ UNCHANGED <<env, prog, modules, pc, op, plan, grp, pending, locals,
                 fields, log, faults, ops, created, dirty, last, open, queue,
                 status, mixer, arg_text>>

NextMatch == MatchCall

SpecMatch == InitMatch /\ [][NextMatch]_vars

\* The module lists with blocks cut short: each of the two blocks with or
\* without its header line.
CutTexts ==
  {[i \in 1..2 |-> IF i \in hdr THEN << <<"Module #", ToString(i)>>, f[i] >>
                   ELSE << f[i] >>] :
     f \in [1..2 -> Strings(0, MaxPatLen)], hdr \in SUBSET {1, 2}}

\* Such a module list is on the server; no call was made.
InitCut ==
  /\ prog = "matcher" /\ env = "reliable"
  /\ arg_text \in CutTexts
  /\ arg_code = 0 /\ arg_patterns = <<>> /\ result = <<>>
  /\ modules = <<>> /\ pc = "idle" /\ op = "none" /\ plan = NoPlan
  /\ grp = 1 /\ pending = <<>>
  /\ splitter = "" /\ master_sink = "" /\ all_sinks = {} /\ attempt = 1
  /\ pipeline_modules = <<>> /\ pipeline_active = FALSE
  /\ log = <<>> /\ faults = 0 /\ ops = 0 /\ created = {} /\ dirty = FALSE
  /\ last = NoOp /\ open = 0 /\ queue = <<>> /\ status = "ready"
  /\ sliders = Defaults /\ sent = <<>> /\ NoWindow

SpecCut == InitCut /\ [][NextMatch]_vars

\* ------------------------------------------------- a server that goes down

\* One operation of a GUI on a server, empty or holding a built pipeline,
\* that stops answering at some call of the operation, the first included.
InitDown ==
  /\ prog \in {"gui", "v2"} /\ env = "down"
  /\ modules \in {<<>>, Built(prog)}
  /\ pc = "idle" /\ op = "none" /\ plan = NoPlan
  /\ grp = 1 /\ pending = <<>>
  /\ splitter = "" /\ master_sink = "" /\ all_sinks = {} /\ attempt = 1
  /\ pipeline_modules = <<>> /\ pipeline_active = FALSE
  /\ log = <<>> /\ faults = 0 /\ ops = 0 /\ created = {} /\ dirty = FALSE
  /\ last = NoOp /\ open = 0 /\ queue = <<>> /\ status = "ready"
  /\ sliders = Defaults /\ sent = <<>> /\ NoWindow
  /\ arg_text = <<>> /\ arg_code = 0 /\ arg_patterns = <<>> /\ result = <<>>

NextDown == StopSteps \/ GuiSteps \/ V2Steps

\* run_cmd returns (subprocess.run waits for pactl to exit) and the main
\* loop goes on taking callbacks: a step that can be taken is taken.
SpecDown == InitDown /\ [][NextDown]_vars /\ WF_vars(NextDown)

\* ------------------------------------------------------ the slider handlers

\* The volume adjustments go from 0 to 150 (per cent), the balance
\* adjustments from -100 to 100.
MaxVolume == 150
MaxBalance == 100

\* max_vol of audio_splitter_gui.on_rear_balance_changed.
max_vol == 150

\* base_vol of _apply_front_volume_and_balance: 100% in PulseAudio units.
base_vol == 65536

\* The volume positions explored: every VolumeGrid-th per cent and the
\* position the window starts with.  Every balance position is explored.
VolumeGrid == 5

Volumes == {v \in 0..MaxVolume : v % VolumeGrid = 0} \cup {Defaults.front_vol}
Balances == (0 - MaxBalance)..MaxBalance

\* The factors of the rear handlers, in hundredths:
\* `1 + balance / 100 if balance < 0 else 1` and
\* `1 - balance / 100 if balance > 0 else 1`.
RightFactor(balance) == IF balance < 0 THEN 100 + balance ELSE 100

\* A left factor computed as the right one is.
LeftFactorMirrored(balance) == IF balance < 0 THEN 100 + balance ELSE 100

LeftFactor(balance) == IF balance > 0 THEN 100 - balance ELSE 100

\* The factors of the front handler, in hundredths:
\* `1 - max(0, balance) / 100` and `1 - max(0, -balance) / 100`.
FrontLeftFactor(balance) == 100 - (IF balance > 0 THEN balance ELSE 0)
FrontRightFactor(balance) == 100 - (IF balance < 0 THEN 0 - balance ELSE 0)

\* int(x) for the binary floating-point x a handler computed, whose value in
\* real numbers is num / den.  A factor other than 1 went through a division
\* and a subtraction that round (inexact): where the real value is a whole
\* number x may lie just below it, and int() then gives one less.  Elsewhere
\* the distance to the next whole number is far above the rounding error.
int(num, den, inexact) ==
  {num \div den}
  \cup (IF inexact /\ num % den = 0 /\ num > 0 THEN {(num \div den) - 1}
        ELSE {})

\* pactl set-sink-volume <sink> <vals>: per cent ("%") or PulseAudio units
\* ("raw") per channel; h names the handler (history).
SetVolume(h, sink, unit, vals) ==
  [h |-> h, sink |-> sink, unit |-> unit, vals |-> vals]

\* What a slider handler leaves alone.
still == <<env, prog, modules, pc, op, plan, grp, pending, locals, fields,
           log, faults, ops, created, dirty, last, open, queue, status,
           matcher, sliders, sink_manager, active_modules, start_btn,
           stop_btn, present, shown, left_idx, right_idx, sink_name_map,
           display_names, front_active>>

\* The calls of a rear handler: the left volume to the rear-left device, the
\* right volume to the rear-right device, each when it is selected.
RearCalls(l, r) ==
  (IF plan.rear_l # "" THEN <<SetVolume("rear", plan.rear_l, "%", <<l>>)>>
   ELSE <<>>)
  \o (IF plan.rear_r # "" THEN <<SetVolume("rear", plan.rear_r, "%", <<r>>)>>
      ELSE <<>>)

\* on_front_volume_changed of audio_splitter_gui: int(adj.get_value())%.
GuiFrontVolume ==
  /\ prog = "gui" /\ MainLoopFree
  /\ sent' = IF plan.front # ""
             THEN <<SetVolume("front", plan.front, "%", <<sliders.front_vol>>)>>
             ELSE <<>>
  /\ UNCHANGED still

\* on_rear_balance_changed of audio_splitter_gui: 100 times the factor,
\* times max_vol / 100.
GuiRearBalance ==
  /\ prog = "gui" /\ MainLoopFree
  /\ LET balance == sliders.rear_balance IN
     \E l \in int(LeftFactor(balance) * max_vol, 100, balance > 0),
        r \in int(RightFactor(balance) * max_vol, 100, balance < 0) :
       sent' = RearCalls(l, r)
  /\ UNCHANGED still

\* _apply_front_volume_and_balance of audio_splitter_gui_v2: both channels
\* of the front device in one call, in PulseAudio units.
apply_front_volume_and_balance ==
  /\ MainLoopFree
  /\ LET balance == sliders.front_balance
         whole == base_vol * sliders.front_vol
     IN \E l \in int(whole * FrontLeftFactor(balance), 10000, balance > 0),
           r \in int(whole * FrontRightFactor(balance), 10000, balance < 0) :
          sent' = IF plan.front # ""
                  THEN <<SetVolume("front", plan.front, "raw", <<l, r>>)>>
                  ELSE <<>>
  /\ UNCHANGED still

\* on_front_volume_changed and on_front_balance_changed of
\* audio_splitter_gui_v2.
V2FrontVolume == prog = "v2" /\ apply_front_volume_and_balance
V2FrontBalance == prog = "v2" /\ apply_front_volume_and_balance

\* The rear handlers of audio_splitter_gui_v2: the rear volume times the
\* factor.
RearVolumeAndBalance ==
  /\ MainLoopFree
  /\ LET balance == sliders.rear_balance
         rear_vol == sliders.rear_vol
     IN \E l \in int(rear_vol * LeftFactor(balance), 100, balance > 0),
           r \in int(rear_vol * RightFactor(balance), 100, balance < 0) :
          sent' = RearCalls(l, r)
  /\ UNCHANGED still

\* on_rear_volume_changed and on_rear_balance_changed of
\* audio_splitter_gui_v2.
V2RearVolume == prog = "v2" /\ RearVolumeAndBalance
V2RearBalance == prog = "v2" /\ RearVolumeAndBalance

\* The positions the sliders of a window may be at when a handler runs: the
\* front pair or the rear pair anywhere, the other pair where it started
\* (audio_splitter_gui has the front volume and the rear balance only).
Positions(p) ==
  IF p = "gui"
  THEN {[Defaults EXCEPT !.front_vol = v, !.rear_balance = b] :
          v \in Volumes, b \in Balances}
  ELSE {[Defaults EXCEPT !.front_vol = v, !.front_balance = b] :
          v \in Volumes, b \in Balances}
       \cup {[Defaults EXCEPT !.rear_vol = v, !.rear_balance = b] :
               v \in Volumes, b \in Balances}

\* A window with outputs selected and its sliders somewhere; no handler has
\* run since.
InitVolume ==
  /\ prog \in {"gui", "v2"} /\ env = "reliable"
  /\ plan \in {[NoPlan EXCEPT !.front = o[1], !.rear_l = o[2],
                              !.rear_r = o[3]] : o \in Outputs}
  /\ sliders \in Positions(prog) /\ sent = <<>> /\ NoWindow
  /\ modules = <<>> /\ pc = "idle" /\ op = "none"
  /\ grp = 1 /\ pending = <<>>
  /\ splitter = "" /\ master_sink = "" /\ all_sinks = {} /\ attempt = 1
  /\ pipeline_modules = <<>> /\ pipeline_active = FALSE
  /\ log = <<>> /\ faults = 0 /\ ops = 0 /\ created = {} /\ dirty = FALSE
  /\ last = NoOp /\ open = 0 /\ queue = <<>> /\ status = "ready"
  /\ arg_text = <<>> /\ arg_code = 0 /\ arg_patterns = <<>> /\ result = <<>>

NextVolume ==
  \/ GuiFrontVolume \/ GuiRearBalance
  \/ V2FrontVolume \/ V2FrontBalance \/ V2RearVolume \/ V2RearBalance

SpecVolume == InitVolume /\ [][NextVolume]_vars

\* -------------------------------------------------------- pactl_sinks alone

\* Lines of the output of `pactl list short sinks` a call may meet.
MaxLines == 3

\* The lines, as lists of fields: an empty line, a line of one field, two
\* devices, and the sinks with the internal names.
LineShapes ==
  { <<>>, <<"9">>,
    <<"0", "dev1", "module-alsa-card.c">>,
    <<"1", "dev2", "module-alsa-card.c">>,
    <<"2", SPLITTER_SINK, "module-null-sink.c">>,
    <<"3", COMPRESSOR_SINK, "module-ladspa-sink.c">>,
    <<"4", "null", "module-null-sink.c">> }

\* The outputs of the query: up to MaxLines lines.
SinkOutputs == UNION {[1..n -> LineShapes] : n \in 0..MaxLines}

\* The server has an output to give; no call was made.
InitSinks ==
  /\ prog = "pactl_sinks" /\ env = "reliable"
  /\ arg_text \in SinkOutputs
  /\ arg_code = 0 /\ arg_patterns = <<>> /\ result = <<>>
  /\ modules = <<>> /\ pc = "idle" /\ op = "none" /\ plan = NoPlan
  /\ grp = 1 /\ pending = <<>>
  /\ splitter = "" /\ master_sink = "" /\ all_sinks = {} /\ attempt = 1
  /\ pipeline_modules = <<>> /\ pipeline_active = FALSE
  /\ log = <<>> /\ faults = 0 /\ ops = 0 /\ created = {} /\ dirty = FALSE
  /\ last = NoOp /\ open = 0 /\ queue = <<>> /\ status = "ready"
  /\ sliders = Defaults /\ sent = <<>> /\ NoWindow

\* The call pactl_sinks(); the query exits 0 or not.
SinksCall ==
  /\ prog = "pactl_sinks" /\ ops = 0
  /\ \E c \in {0, 1} :
       /\ arg_code' = c
       /\ result' = pactl_sinks(c, arg_text)
  /\ ops' = 1
  /\ UNCHANGED <<env, prog, modules, pc, op, plan, grp, pending, locals,
                 fields, log, faults, created, dirty, last, open, queue,
                 status, mixer, arg_text, arg_patterns>>

NextSinks == SinksCall

SpecSinks == InitSinks /\ [][NextSinks]_vars

\* ------------------------------------------------- the enhanced splitter

\* universal_audio_splitter_enhanced.py builds and removes its modules
\* through PulseAudioSinkManager.  Each create_* call of the manager loads
\* one module and raises when the server refuses it; delete_sink and
\* delete_source unload the module that provides the named sink or source.

\* The module a name belongs to, NoMod (with the name) when none is loaded.
ModNamed(mods, nm) ==
  LET hit == SelectSeq(mods, LAMBDA m : m.nm = nm) IN
  IF hit = <<>> THEN [NoMod EXCEPT !.nm = nm] ELSE Head(hit)

\* sink_manager.delete_sink(name): the module of the sink is unloaded.
delete_sink(ok, nm) ==
  /\ modules' = IF ok THEN SelectSeq(modules, LAMBDA m : m.nm # nm)
                ELSE modules
  /\ Issue("unload", ok, ModNamed(modules, nm), <<>>)

\* sink_manager.delete_source(name).
delete_source(ok, nm) == delete_sink(ok, nm)

\* The delete calls of stop_audio_pipeline, in the order of the code.
EnhancedDeletions ==
  <<"enhanced_splitter", "enhanced_compressor", "enhanced_left",
    "enhanced_right">>

\* The create calls of create_audio_pipeline for a selection, in the order
\* of the code; the compressor has a try block of its own.
EnhancedNodes(pl) ==
  LET node(name, nm, master, dev, inner) ==
        [name |-> name, nm |-> nm, master |-> master, dev |-> dev,
         inner |-> inner]
      lb(src, dev) ==
        IF dev = "" THEN <<>>
        ELSE <<node("module-loopback", "", src, dev, FALSE)>>
  IN << node("module-null-sink", "enhanced_splitter", "", "", FALSE),
        node("module-ladspa-sink", "enhanced_compressor", "enhanced_splitter",
             "", TRUE),
        node("module-remap-source", "enhanced_left", "enhanced_splitter", "",
             FALSE),
        node("module-remap-source", "enhanced_right", "enhanced_splitter", "",
             FALSE) >>
     \o lb("enhanced_left", pl.front) \o lb("enhanced_right", pl.front)
     \o lb("enhanced_left", pl.rear_l) \o lb("enhanced_right", pl.rear_r)

\* create_audio_pipeline(front_sink, rear_l_sink, rear_r_sink) is called:
\* it calls stop_audio_pipeline() first.
EnhancedCreate ==
  /\ prog = "enhanced"
  /\ \E pl \in UniversalPlans : Begin("apply", pl)
  /\ pc' = "estop" /\ grp' = 1
  /\ UNCHANGED <<pending, fields>>

\* stop_audio_pipeline() is called from outside.
EnhancedStop ==
  /\ prog = "enhanced"
  /\ Begin("stop", plan)
  /\ pc' = "estop" /\ grp' = 1
  /\ UNCHANGED <<pending, fields>>

\* One delete call of stop_audio_pipeline; it is reached only when
\* pipeline_active is set.  A delete that raises ends the try block.
EnhancedDelete ==
  /\ prog = "enhanced" /\ pc \in {"estop", "erollback"}
  /\ pipeline_active /\ grp <= Len(EnhancedDeletions)
  /\ \E ok \in Outcomes :
       /\ IF grp <= 2 THEN delete_sink(ok, EnhancedDeletions[grp])
          ELSE delete_source(ok, EnhancedDeletions[grp])
       /\ grp' = IF ok THEN grp + 1 ELSE Len(EnhancedDeletions) + 1
  /\ UNCHANGED <<frame, pc, pending, locals, fields, created>>

\* stop_audio_pipeline returns: at once when pipeline_active is not set,
\* else after the try block with pipeline_active cleared.
EnhancedStopReturn ==
  /\ prog = "enhanced" /\ pc \in {"estop", "erollback"}
  /\ ~pipeline_active \/ grp > Len(EnhancedDeletions)
  /\ pipeline_active' = FALSE
  /\ grp' = 1
  /\ pc' = IF pc = "erollback" THEN "false"
           ELSE IF op = "stop" THEN "ret" ELSE "ebuild"
  /\ log' = Append(log, Entry("stopped", TRUE, NoMod, <<>>))
  /\ UNCHANGED <<frame, modules, pending, locals, pipeline_modules, faults,
                 created, dirty>>

\* One create call of create_audio_pipeline.  A call that raises takes the
\* function to its except clause, the compressor's to the inner one.
EnhancedNode ==
  /\ prog = "enhanced" /\ pc = "ebuild"
  /\ grp <= Len(EnhancedNodes(plan))
  /\ LET n == EnhancedNodes(plan)[grp] IN
     \E ok \in Outcomes :
       /\ Load(ok, n.name, n.nm, n.master, n.dev)
       /\ pc' = IF ok \/ n.inner THEN "ebuild" ELSE "erollback"
       /\ grp' = IF ok \/ n.inner THEN grp + 1 ELSE 1
  /\ UNCHANGED <<frame, pending, locals, fields>>

\* set_default_sink, then pipeline_active = True and the call returns True.
EnhancedDefault ==
  /\ prog = "enhanced" /\ pc = "ebuild"
  /\ grp > Len(EnhancedNodes(plan))
  /\ \E ok \in Outcomes :
       /\ Issue("default", ok, NoMod, <<>>)
       /\ pipeline_active' = (ok \/ pipeline_active)
       /\ pc' = IF ok THEN "ret" ELSE "erollback"
  /\ grp' = 1
  /\ UNCHANGED <<frame, modules, pending, locals, pipeline_modules, created>>

\* The server after a full build of the enhanced splitter.
BuiltEnhanced ==
  << Mod("1", "module-null-sink", "enhanced_splitter", "", ""),
     Mod("2", "module-ladspa-sink", "enhanced_compressor",
         "enhanced_splitter", ""),
     Mod("3", "module-remap-source", "enhanced_left", "enhanced_splitter", ""),
     Mod("4", "module-remap-source", "enhanced_right", "enhanced_splitter",
         ""),
     Mod("5", "module-loopback", "", "enhanced_left", "dev1"),
     Mod("6", "module-loopback", "", "enhanced_right", "dev1"),
     Mod("7", "module-loopback", "", "enhanced_left", "dev2"),
     Mod("8", "module-loopback", "", "enhanced_right", "dev3") >>

\* A new EnhancedAudioSplitter on an empty server or next to the modules
\* of an earlier instance, or one whose pipeline is active.
InitEnhanced ==
  /\ prog = "enhanced"
  /\ env \in {"reliable", "flaky"}
  /\ \E start \in {<<<<>>, FALSE>>, <<BuiltEnhanced, FALSE>>,
                   <<BuiltEnhanced, TRUE>>} :
       modules = start[1] /\ pipeline_active = start[2]
  /\ pc = "idle" /\ op = "none" /\ plan = NoPlan
  /\ grp = 1 /\ pending = <<>>
  /\ splitter = "" /\ master_sink = "" /\ all_sinks = {} /\ attempt = 1
  /\ pipeline_modules = <<>>
  /\ log = <<>> /\ faults = 0 /\ ops = 0 /\ created = {} /\ dirty = FALSE
  /\ last = NoOp /\ open = 0 /\ queue = <<>> /\ status = "ready"
  /\ sliders = Defaults /\ sent = <<>> /\ NoWindow
  /\ arg_text = <<>> /\ arg_code = 0 /\ arg_patterns = <<>> /\ result = <<>>

NextEnhanced ==
  \/ EnhancedCreate \/ EnhancedStop \/ EnhancedDelete \/ EnhancedStopReturn
  \/ EnhancedNode \/ EnhancedDefault \/ Return

SpecEnhanced == InitEnhanced /\ [][NextEnhanced]_vars

\* --------------------------------------------- modules of other clients

\* Modules that another client of the server loaded: a null sink called
\* splitter_backup and a loopback from it to a device.
OtherClients ==
  << Mod("1", "module-null-sink", "splitter_backup", "", ""),
     Mod("2", "module-loopback", "", "splitter_backup", "dev1") >>

\* A GUI is started on a server that holds the modules of other clients.
InitForeign ==
  /\ prog \in {"gui", "v2"} /\ env = "reliable"
  /\ modules = OtherClients
  /\ pc = "idle" /\ op = "none" /\ plan = NoPlan
  /\ grp = 1 /\ pending = <<>>
  /\ splitter = "" /\ master_sink = "" /\ all_sinks = {} /\ attempt = 1
  /\ pipeline_modules = <<>> /\ pipeline_active = FALSE
  /\ log = <<>> /\ faults = 0 /\ ops = 0 /\ created = {} /\ dirty = FALSE
  /\ last = NoOp /\ open = 0 /\ queue = <<>> /\ status = "ready"
  /\ sliders = Defaults /\ sent = <<>> /\ NoWindow
  /\ arg_text = <<>> /\ arg_code = 0 /\ arg_patterns = <<>> /\ result = <<>>

SpecForeign == InitForeign /\ [][NextDown]_vars

\* ------------------------------------ the windows with Start and Stop

\* What no step inside a handler of these windows changes, the widgets
\* apart.
wframe == <<env, prog, op, ops, last, matcher, open, queue, status, sliders,
            sent, sink_name_map, display_names, front_active>>

\* The widgets and what a handler reads of the machine.
widgets == <<sink_manager, start_btn, stop_btn, present, shown, left_idx,
             right_idx>>

\* BackendAudioManager.get_all_sinks: the names of the sinks the server
\* holds, the devices first; the empty list when the query fails.
get_all_sinks(ok) ==
  IF ok
  THEN present \o [i \in 1..Len(SinkLines(modules)) |-> SinkLines(modules)[i][2]]
  ELSE <<>>

\* The sink name at a dropdown position of a list; position 0 is
\* "[ Disabled ]".
NameAt(names, idx) == IF idx = 0 THEN "" ELSE names[idx]

\* update_selection_dropdowns: the model is replaced and the defaults are
\* selected.
update_selection_dropdowns(sinks) ==
  /\ shown' = sinks
  /\ left_idx' = IF Len(sinks) >= 1 THEN 1 ELSE 0
  /\ right_idx' = IF Len(sinks) >= 2 THEN 2 ELSE 0

\* The create calls of create_splitter_pipeline for the two sinks, in the
\* order of the code.
BackendNodes(pl) ==
  LET lb(src, dev) ==
        IF dev = "" THEN <<>>
        ELSE <<Mod("", "module-loopback", "", src, dev)>>
  IN << Mod("", "module-null-sink", "lr_splitter", "", ""),
        Mod("", "module-remap-source", "left_channel", "lr_splitter", ""),
        Mod("", "module-remap-source", "right_channel", "lr_splitter", "") >>
     \o lb("left_channel", pl.rear_l) \o lb("right_channel", pl.rear_r)

\* refresh_sinks, from the Refresh button.
BackendRefresh ==
  /\ prog = "backend" /\ MainLoopFree
  /\ \E ok \in Outcomes :
       /\ update_selection_dropdowns(get_all_sinks(ok))
       /\ faults' = IF ok THEN faults ELSE faults + 1
  /\ UNCHANGED <<wframe, plan, modules, pc, grp, pending, locals, fields, log,
                 created, dirty, sink_manager, active_modules, start_btn,
                 stop_btn, present>>

\* The user picks a position in one of the two dropdowns.
BackendSelect ==
  /\ prog = "backend" /\ MainLoopFree
  /\ \E l, r \in 0..Len(shown) :
       /\ <<l, r>> # <<left_idx, right_idx>>
       /\ l = left_idx \/ r = right_idx
       /\ left_idx' = l /\ right_idx' = r
  /\ UNCHANGED <<wframe, plan, modules, pc, grp, pending, locals, fields, log,
                 faults, created, dirty, sink_manager, active_modules,
                 start_btn, stop_btn, present, shown>>

\* The first device of the machine is unplugged or plugged in again.
Plug ==
  /\ prog = "backend" /\ MainLoopFree
  /\ present' = IF Len(present) = 3 THEN Tail(present)
                ELSE <<"dev1">> \o present
  /\ UNCHANGED <<wframe, plan, modules, pc, grp, pending, locals, fields, log,
                 faults, created, dirty, sink_manager, active_modules,
                 start_btn, stop_btn, shown, left_idx, right_idx>>

\* start_split: the click is taken when Start is sensitive; the positions
\* are read.
BackendStartSplit ==
  /\ prog = "backend" /\ start_btn
  /\ Begin("apply", plan)
  /\ pc' = "bsinks"
  /\ UNCHANGED <<grp, pending, fields>>

\* start_split: the names at the two positions of a fresh get_all_sinks();
\* a position past its end raises IndexError, which the handler reports.
\* Then create_splitter_pipeline is called and calls cleanup_pipeline().
BackendSinks ==
  /\ prog = "backend" /\ pc = "bsinks"
  /\ \E ok \in Outcomes :
       LET all == get_all_sinks(ok)
           inside == left_idx <= Len(all) /\ right_idx <= Len(all)
       IN /\ Issue("sinks", ok, NoMod, <<>>)
          /\ plan' = IF inside
                     THEN [NoPlan EXCEPT !.rear_l = NameAt(all, left_idx),
                                         !.rear_r = NameAt(all, right_idx)]
                     ELSE plan
          /\ pc' = IF inside THEN "bclean" ELSE "raised"
  /\ pending' = Reverse(active_modules)
  /\ UNCHANGED <<wframe, widgets, modules, grp, locals, fields,
                 active_modules, created>>

\* stop_split: the click is taken when Stop is sensitive.
BackendStopSplit ==
  /\ prog = "backend" /\ stop_btn
  /\ Begin("stop", plan)
  /\ pc' = "bclean" /\ pending' = Reverse(active_modules)
  /\ UNCHANGED <<grp, fields>>

\* cleanup_pipeline: one pass of the loop over reversed(active_modules).
\* Without the sink manager the id is unloaded, check=False.  With it a
\* loopback is removed by delete_module(id), a null sink by
\* delete_sink("lr_splitter"), and a remap source by a delete_source that
\* is called only when the module id contains the source's name.
BackendCleanupStep ==
  /\ prog = "backend" /\ pc \in {"bclean", "brollback"} /\ pending # <<>>
  /\ LET type == Head(pending)[1]
         id == Head(pending)[2]
     IN IF sink_manager /\ type = "module-remap-source"
        THEN UNCHANGED <<modules, log, faults, dirty>>
        ELSE \E ok \in Outcomes :
               IF sink_manager /\ type = "module-null-sink"
               THEN delete_sink(ok, "lr_splitter")
               ELSE Unload(ok, id)
  /\ pending' = Tail(pending)
  /\ UNCHANGED <<wframe, plan, widgets, pc, grp, locals, fields,
                 active_modules, created>>

\* cleanup_pipeline returns, at once when active_modules is empty, else
\* with the list cleared.
BackendCleanupReturn ==
  /\ prog = "backend" /\ pc \in {"bclean", "brollback"} /\ pending = <<>>
  /\ active_modules' = <<>>
  /\ grp' = 1
  /\ pc' = IF pc = "brollback" THEN "false"
           ELSE IF op = "stop" THEN "ret" ELSE "bbuild"
  /\ log' = Append(log, Entry("stopped", TRUE, NoMod, <<>>))
  /\ UNCHANGED <<wframe, plan, widgets, modules, pending, locals, fields,
                 faults, created, dirty>>

\* What a create call that returned an id records: every module on the
\* pactl path; with the sink manager the sources and loopbacks, not the
\* splitter sink.
Recorded(n, ok) ==
  IF ok /\ (~sink_manager \/ n.name # "module-null-sink")
  THEN Append(active_modules, <<n.name, FreeId(modules)>>)
  ELSE active_modules

\* One create call of create_splitter_pipeline: through the sink manager
\* when there is one, else through pactl with check=True.  A source or
\* loopback the manager fails to create is tried again through pactl.
BackendNode ==
  /\ prog = "backend" /\ pc = "bbuild"
  /\ grp <= Len(BackendNodes(plan))
  /\ LET n == BackendNodes(plan)[grp]
         again == sink_manager /\ n.name # "module-null-sink"
     IN \E ok \in Outcomes :
          /\ Load(ok, n.name, n.nm, n.master, n.dev)
          /\ active_modules' = Recorded(n, ok)
          /\ pc' = IF ok THEN "bbuild"
                   ELSE IF again THEN "bfallback" ELSE "brollback"
          /\ grp' = IF ok THEN grp + 1 ELSE grp
          /\ pending' = IF ok \/ again THEN pending
                        ELSE Reverse(active_modules)
  /\ UNCHANGED <<wframe, plan, widgets, locals, fields>>

\* _create_channel_source / _create_loopback: the pactl call after the
\* manager's create raised.
BackendFallback ==
  /\ prog = "backend" /\ pc = "bfallback"
  /\ LET n == BackendNodes(plan)[grp] IN
     \E ok \in Outcomes :
       /\ Load(ok, n.name, n.nm, n.master, n.dev)
       /\ active_modules' = IF ok THEN Append(active_modules,
                                              <<n.name, FreeId(modules)>>)
                            ELSE active_modules
       /\ pc' = IF ok THEN "bbuild" ELSE "brollback"
       /\ grp' = IF ok THEN grp + 1 ELSE grp
       /\ pending' = IF ok THEN pending ELSE Reverse(active_modules)
  /\ UNCHANGED <<wframe, plan, widgets, locals, fields>>

\* set-default-sink lr_splitter (check=False); the call returns True.
BackendDefault ==
  /\ prog = "backend" /\ pc = "bbuild"
  /\ grp > Len(BackendNodes(plan))
  /\ \E ok \in Outcomes : Issue("default", ok, NoMod, <<>>)
  /\ pc' = "ret" /\ grp' = 1
  /\ UNCHANGED <<wframe, plan, widgets, modules, pending, locals, fields,
                 active_modules, created>>

\* start_pipeline of the universal window: the click is taken when Start
\* is sensitive; a position past the end of get_available_sinks() raises
\* IndexError, else create_audio_pipeline is called.
UniversalStartPipeline ==
  /\ prog = "universal" /\ start_btn
  /\ \E pl \in UniversalPlans : Begin("apply", pl)
  /\ \E inside \in BOOLEAN : pc' = IF inside THEN "ustop" ELSE "raised"
  /\ pending' = Reverse(pipeline_modules)
  /\ UNCHANGED <<grp, fields>>

\* stop_pipeline of the universal window.
UniversalStopPipeline ==
  /\ prog = "universal" /\ stop_btn
  /\ Begin("stop", plan)
  /\ pc' = "ustop" /\ pending' = Reverse(pipeline_modules)
  /\ UNCHANGED <<grp, fields>>

\* A start handler that makes Stop sensitive whatever create returned.
SetButtonsAlways(made) ==
  /\ start_btn' = (op = "stop")
  /\ stop_btn' = (op = "apply")

\* The buttons at the end of a handler: start makes Stop sensitive and
\* Start insensitive when the create call returned True (made), stop does
\* the reverse; otherwise they are left alone.
SetButtons(made) ==
  /\ start_btn' = IF op = "stop" THEN TRUE
                  ELSE IF made THEN FALSE ELSE start_btn
  /\ stop_btn' = IF op = "stop" THEN FALSE
                 ELSE IF made THEN TRUE ELSE stop_btn

\* The handler of a window returns to the main loop: the buttons are set,
\* and the backend window refreshes its lists after a successful start
\* and after a stop.
WindowReturn ==
  /\ pc \in {"ret", "false", "raised"}
  /\ pc' = "idle"
  /\ open' = open - 1
  /\ last' = [op |-> op, plan |-> plan, clean |-> ~dirty,
              result |-> IF pc = "ret" THEN "ok" ELSE pc,
              topo |-> Topo(modules)]
  /\ SetButtons(op = "apply" /\ pc = "ret")
  /\ IF prog = "backend" /\ pc = "ret"
     THEN \E ok \in Outcomes :
            /\ update_selection_dropdowns(get_all_sinks(ok))
            /\ faults' = IF ok THEN faults ELSE faults + 1
     ELSE UNCHANGED <<shown, left_idx, right_idx, faults>>
  /\ UNCHANGED <<env, prog, modules, op, plan, grp, pending, locals, fields,
                 log, ops, created, dirty, matcher, status, queue, sliders,
                 sent, sink_manager, active_modules, present, sink_name_map,
                 display_names, front_active>>

\* The windows before the first click on Start: Start sensitive, Stop not;
\* the backend window, with or without the sink manager, has run
\* refresh_sinks and the user has picked a position in each dropdown.
InitWindows ==
  /\ prog \in {"universal", "backend"} /\ env = "faulty"
  /\ modules = <<>>
  /\ sink_manager \in (IF prog = "backend" THEN BOOLEAN ELSE {FALSE})
  /\ active_modules = <<>>
  /\ start_btn = TRUE /\ stop_btn = FALSE
  /\ present = <<"dev1", "dev2", "dev3">>
  /\ shown = (IF prog = "backend" THEN present ELSE <<>>)
  /\ left_idx \in (IF prog = "backend" THEN 0..Len(present) ELSE {0})
  /\ right_idx \in (IF prog = "backend" THEN 0..Len(present) ELSE {0})
  /\ sink_name_map = <<>> /\ display_names = <<>> /\ front_active = -1
  /\ pc = "idle" /\ op = "none" /\ plan = NoPlan
  /\ grp = 1 /\ pending = <<>>
  /\ splitter = "" /\ master_sink = "" /\ all_sinks = {} /\ attempt = 1
  /\ pipeline_modules = <<>> /\ pipeline_active = FALSE
  /\ log = <<>> /\ faults = 0 /\ ops = 0 /\ created = {} /\ dirty = FALSE
  /\ last = NoOp /\ open = 0 /\ queue = <<>> /\ status = "ready"
  /\ sliders = Defaults /\ sent = <<>>
  /\ arg_text = <<>> /\ arg_code = 0 /\ arg_patterns = <<>> /\ result = <<>>

\* The Start and Stop handlers of the two windows.
NextWindows ==
  \/ BackendStartSplit \/ BackendSinks \/ BackendStopSplit
  \/ BackendCleanupStep \/ BackendCleanupReturn \/ BackendNode
  \/ BackendFallback \/ BackendDefault
  \/ UniversalStartPipeline \/ UniversalStopPipeline \/ UniversalUnload
  \/ UniversalStopReturn \/ UniversalBase \/ UniversalCompressor
  \/ UniversalLeft \/ UniversalRight \/ UniversalFrontL \/ UniversalFrontR
  \/ UniversalRearL \/ UniversalRearR \/ UniversalDefault \/ WindowReturn

SpecWindows == InitWindows /\ [][NextWindows]_vars

\* The backend window with its dropdowns in use while devices come and go.
InitDropdowns == InitWindows /\ prog = "backend"

NextDropdowns ==
  \/ BackendRefresh \/ BackendSelect \/ Plug \/ BackendStartSplit
  \/ BackendSinks \/ BackendStopSplit \/ BackendCleanupStep
  \/ BackendCleanupReturn \/ BackendNode \/ BackendFallback \/ BackendDefault
  \/ WindowReturn

SpecDropdowns == InitDropdowns /\ [][NextDropdowns]_vars

\* ------------------------------------- the display names of version 2

DISABLED_SINK_TEXT == "[ Disabled ]"

\* A line of `pactl list sinks`, stripped: the field it starts with and the
\* text after it.
Line(key, value) == [key |-> key, value |-> value]

\* The descriptions a device of the machine may carry ("": none).
Descriptions == {"", "Speakers", "HDMI"}

\* The machine's device lists: every order of one to three devices.
DeviceLists ==
  {s \in UNION {[1..n -> {"dev1", "dev2", "dev3"}] : n \in 1..3} :
     \A i, j \in 1..Len(s) : s[i] = s[j] => i = j}

\* The output of `pactl list sinks` for the devices names with the
\* descriptions descs: the block of a sink has its Name line, then its
\* Description line, then a line of another field.
RECURSIVE ListSinks(_, _)
ListSinks(names, descs) ==
  IF names = <<>> THEN <<>>
  ELSE << Line("Name:", Head(names)), Line("Description:", Head(descs)),
          Line("Driver:", "module-alsa-card.c") >>
       \o ListSinks(Tail(names), Tail(descs))

\* The output of `pactl list short sinks` for the same devices, a line
\* being the list of its fields.
ShortDevices(names) ==
  [i \in 1..Len(names) |-> <<"0", names[i], "module-alsa-card.c">>]

\* A dict as the list of its items in insertion order: d[key] = value
\* keeps the place of a key that is there and adds a new key at the end.
DictSet(d, key, value) ==
  IF \E i \in 1..Len(d) : d[i][1] = key
  THEN [i \in 1..Len(d) |-> IF d[i][1] = key THEN <<key, value>> ELSE d[i]]
  ELSE Append(d, <<key, value>>)

\* d.get(key, default).
DictGet(d, key, default) ==
  IF \E i \in 1..Len(d) : d[i][1] = key
  THEN d[CHOOSE i \in 1..Len(d) : d[i][1] = key][2]
  ELSE default

\* next((k for k, v in d.items() if v == value), default): the first key
\* in insertion order that has the value.
FirstKeyOf(d, value, default) ==
  LET hits == {i \in 1..Len(d) : d[i][2] = value} IN
  IF hits = {} THEN default
  ELSE d[CHOOSE i \in hits : \A j \in hits : i <= j][1]

\* The block of a sink goes to the map when both its name and its
\* description are non-empty.
FlushSink(sink_map, name, description) ==
  IF name # "" /\ description # "" THEN DictSet(sink_map, name, description)
  ELSE sink_map

\* The loop of get_sink_display_names over the lines: a Name line closes
\* the block before it and opens a block with no description; a
\* Description line sets the description of the open block; the last block
\* is closed after the loop.
RECURSIVE parse_sink_blocks(_, _, _, _)
parse_sink_blocks(lines, sink_map, name, description) ==
  IF lines = <<>> THEN FlushSink(sink_map, name, description)
  ELSE LET line == Head(lines) IN
       IF line.key = "Name:"
       THEN parse_sink_blocks(Tail(lines),
                              FlushSink(sink_map, name, description),
                              line.value, "")
       ELSE IF line.key = "Description:"
       THEN parse_sink_blocks(Tail(lines), sink_map, name, line.value)
       ELSE parse_sink_blocks(Tail(lines), sink_map, name, description)

\* get_sink_display_names: raw name -> description; the empty map when the
\* query exited non-zero.
get_sink_display_names(code, out) ==
  IF code # 0 THEN <<>> ELSE parse_sink_blocks(out, <<>>, "", "")

\* current_selection's get_raw_name for a combo with the items names and
\* the active position active (0 is the first item): "" with no active item
\* or with the Disabled item; else the first raw name of the map that has
\* the text as its description, else the text itself.
get_raw_name(sink_map, names, active) ==
  IF active < 0 THEN ""
  ELSE LET display_name == names[active + 1] IN
       IF display_name = DISABLED_SINK_TEXT THEN ""
       ELSE FirstKeyOf(sink_map, display_name, display_name)

\* The texts of this machine that contain one of the hints of
\* auto_selection_hints.front_sink (no text contains two).
FrontHinted == {"dev3", "HDMI"}

\* The score of the item at position i (0 the Disabled item): the hints
\* found in the display name or in the raw name.
HintScore(sink_map, names, i) ==
  LET display_name == names[i + 1]
      raw_name == FirstKeyOf(sink_map, display_name, display_name)
  IN IF display_name \in FrontHinted \/ raw_name \in FrontHinted THEN 1
     ELSE 0

\* on_refresh's select for the front combo. raw_to_display is built as
\* {v: k for k, v in sink_name_map.items()}: its keys are the descriptions,
\* the last raw name with a description winning. The saved raw name is
\* restored when it is a key of raw_to_display and the value found is one
\* of the items; else the first item of the highest score is set when that
\* score is positive; else the Disabled item.
select(sink_map, names, saved_raw) ==
  LET raw_to_display ==
        [i \in 1..Len(sink_map) |-> <<sink_map[i][2],
           sink_map[CHOOSE j \in 1..Len(sink_map) :
                      /\ sink_map[j][2] = sink_map[i][2]
                      /\ \A k \in 1..Len(sink_map) :
                           sink_map[k][2] = sink_map[i][2] => k <= j][1]>>]
      saved_display == DictGet(raw_to_display, saved_raw, "")
      restored == /\ saved_raw # ""
                  /\ \E i \in 1..Len(raw_to_display) :
                       raw_to_display[i][1] = saved_raw
                  /\ \E i \in 1..Len(names) : names[i] = saved_display
      scored == {i \in 1..(Len(names) - 1) : HintScore(sink_map, names, i) > 0}
  IN IF restored
     THEN (CHOOSE i \in 1..Len(names) :
             /\ names[i] = saved_display
             /\ \A j \in 1..Len(names) : names[j] = saved_display => i <= j)
          - 1
     ELSE IF scored # {}
     THEN CHOOSE i \in scored : \A j \in scored : i <= j
     ELSE 0

\* on_refresh (a click on Refresh Sinks, and the window's construction):
\* the selection is read, the sinks and the display names are queried, the
\* items become Disabled and the sinks' display names, and the selection
\* is restored or chosen anew. set_pro_audio_profile finds no card to
\* switch on this machine.
V2OnRefresh ==
  /\ prog = "labels"
  /\ \E c1 \in {0, 1}, c2 \in {0, 1} :
       LET selections ==
             get_raw_name(sink_name_map, display_names, front_active)
           raw_sinks == pactl_sinks(c1, ShortDevices(present))
           sink_map == get_sink_display_names(c2, arg_text)
           names == <<DISABLED_SINK_TEXT>>
                    \o [i \in 1..Len(raw_sinks) |->
                          DictGet(sink_map, raw_sinks[i], raw_sinks[i])]
       IN /\ sink_name_map' = sink_map
          /\ display_names' = names
          /\ front_active' = select(sink_map, names, selections)
  /\ UNCHANGED <<env, prog, modules, pc, op, plan, grp, pending, locals,
                 fields, log, faults, ops, created, dirty, last, open, queue,
                 status, sliders, sent, sink_manager, active_modules,
                 start_btn, stop_btn, present, shown, left_idx, right_idx,
                 matcher>>

\* The user picks another item of the front combo.
V2SetActive ==
  /\ prog = "labels"
  /\ \E i \in 0..(Len(display_names) - 1) :
       i # front_active /\ front_active' = i
  /\ UNCHANGED <<env, prog, modules, pc, op, plan, grp, pending, locals,
                 fields, log, faults, ops, created, dirty, last, open, queue,
                 status, sliders, sent, sink_manager, active_modules,
                 start_btn, stop_btn, present, shown, left_idx, right_idx,
                 sink_name_map, display_names, matcher>>

\* on_apply with the widgets: the selection is read and handed, with
\* apply_pipeline, to the idle queue.
V2OnApplySelection ==
  /\ prog = "labels" /\ ops < MaxOps
  /\ plan' = [plan EXCEPT !.front = get_raw_name(sink_name_map,
                                                 display_names, front_active)]
  /\ queue' = Append(queue, "apply")
  /\ ops' = ops + 1
  /\ UNCHANGED <<env, prog, modules, pc, op, grp, pending, locals, fields,
                 log, faults, created, dirty, last, open, status, mixer,
                 matcher>>

\* The window before its first refresh, on a machine with one to three
\* devices, each with a description or none.
InitLabels ==
  /\ prog = "labels" /\ env = "reliable"
  /\ present \in DeviceLists
  /\ arg_text \in {ListSinks(present, d) :
                     d \in [1..Len(present) -> Descriptions]}
  /\ arg_code = 0 /\ arg_patterns = <<>> /\ result = <<>>
  /\ sink_name_map = <<>> /\ display_names = <<>> /\ front_active = -1
  /\ sink_manager = FALSE /\ active_modules = <<>>
  /\ start_btn = TRUE /\ stop_btn = FALSE
  /\ shown = <<>> /\ left_idx = 0 /\ right_idx = 0
  /\ modules = <<>> /\ pc = "idle" /\ op = "none" /\ plan = NoPlan
  /\ grp = 1 /\ pending = <<>>
  /\ splitter = "" /\ master_sink = "" /\ all_sinks = {} /\ attempt = 1
  /\ pipeline_modules = <<>> /\ pipeline_active = FALSE
  /\ log = <<>> /\ faults = 0 /\ ops = 0 /\ created = {} /\ dirty = FALSE
  /\ last = NoOp /\ open = 0 /\ queue = <<>> /\ status = "ready"
  /\ sliders = Defaults /\ sent = <<>>

NextLabels == V2OnRefresh \/ V2SetActive \/ V2OnApplySelection

SpecLabels == InitLabels /\ [][NextLabels]_vars

\* ------------------------------------------------------------ properties

\* The positions in the log of the calls of kind c.
Calls(c) == {i \in 1..Len(log) : log[i].c = c}

\* Effect sinks, channel sources and loopbacks hang on a master.
IsDependent(m) ==
  m.name \in {"module-ladspa-sink", "module-remap-source", "module-loopback"}

\* The name under which a module can be a master: its sink, or the source
\* of a channel source.
Provides(m) ==
  IF m.name = "module-remap-source" THEN m.nm ELSE SinkOf(m)

\* x hangs on y.
DependsOn(x, y) == IsDependent(x) /\ x.master # "" /\ Provides(y) = x.master

\* A module that carries one of the names audio_splitter_gui reserves.
Reserved(m) ==
  \/ m.name = "module-loopback" /\ m.master \in {LEFT_SRC, RIGHT_SRC}
  \/ m.name = "module-remap-source" /\ m.nm \in {LEFT_SRC, RIGHT_SRC}
  \/ m.name = "module-ladspa-sink" /\ m.nm \in {LIMITER_SINK, COMPRESSOR_SINK}
  \/ m.name = "module-null-sink" /\ m.nm = SPLITTER_SINK

\* The ids the module-list queries in lg matched, in order.
RECURSIVE FoundIds(_)
FoundIds(lg) ==
  IF lg = <<>> THEN <<>>
  ELSE (IF Head(lg).c = "list" THEN Head(lg).ids ELSE <<>>)
         \o FoundIds(Tail(lg))

\* The ids the unload calls in lg named, in order.
RECURSIVE UnloadedIds(_)
UnloadedIds(lg) ==
  IF lg = <<>> THEN <<>>
  ELSE (IF Head(lg).c = "unload" THEN <<Head(lg).m.id>> ELSE <<>>)
         \o UnloadedIds(Tail(lg))

\* C1: in audio_splitter_gui, when apply_pipeline(P) has run twice in
\* succession (no call failing), the server holds the same modules, with
\* the same masters, as after the first run, and no module twice.
C1_ApplyTwiceSameTopology ==
  (/\ prog = "gui" /\ pc = "ret" /\ op = "apply" /\ ~dirty
   /\ last.op = "apply" /\ last.clean /\ last.plan = plan)
  => /\ Topo(modules) = last.topo
     /\ \A d \in DOMAIN Topo(modules) : Topo(modules)[d] = 1

C1_Witness ==
  /\ prog = "gui" /\ pc = "ret" /\ op = "apply" /\ ~dirty
  /\ last.op = "apply" /\ last.clean /\ last.plan = plan
  /\ plan.front = "dev1" /\ plan.rear_l = "dev2" /\ plan.rear_r = "dev3"
  /\ plan.limiter
  /\ Cardinality(Calls("unload")) = 9 /\ Len(modules) = 9

\* C2: in audio_splitter_gui, after apply_pipeline(P) and then
\* stop_pipeline() (no call of the stop failing), the server holds no module
\* with a reserved name.
C2_NothingReservedAfterStop ==
  (prog = "gui" /\ pc = "ret" /\ op = "stop" /\ ~dirty /\ last.op = "apply")
  => \A i \in 1..Len(modules) : ~Reserved(modules[i])

C2_Witness ==
  /\ prog = "gui" /\ pc = "ret" /\ op = "stop" /\ ~dirty
  /\ last.op = "apply" /\ last.plan.limiter /\ last.plan.front = "dev1"
  /\ last.plan.rear_l = "dev2"
  /\ Cardinality(Calls("unload")) = 8

\* C3: when build_mastering_pipeline raises after a creation failed, none of
\* the modules this build created is still loaded.
C3_RolledBackWhenRaised ==
  (prog = "mastering" /\ op = "apply" /\ pc = "raised")
  => \A i \in 1..Len(modules) : modules[i].id \notin created

\* C4: audio_splitter_gui.stop_pipeline never unloads a module before a
\* module that hangs on it.
C4_DependentsUnloadedFirst ==
  prog = "gui"
  => \A i \in Calls("unload") : \A j \in Calls("unload") :
       i < j => ~DependsOn(log[j].m, log[i].m)

\* C5: in the stop_pipeline of audio_splitter_gui, audio_splitter_gui_v2
\* and audio_mastering_gui, every unload of a loopback is issued before
\* every unload of an effect sink or of a null sink.
C5_LoopbacksUnloadedFirst ==
  prog \in {"gui", "v2", "mastering"}
  => \A i \in Calls("unload") : \A j \in Calls("unload") :
       (/\ log[i].m.name = "module-loopback"
        /\ log[j].m.name \in {"module-ladspa-sink", "module-null-sink"})
       => i < j

C5_Witness ==
  /\ prog = "v2" /\ pc = "ret"
  /\ \E i \in Calls("unload") : \E j \in Calls("unload") :
       /\ log[i].m.name = "module-loopback"
       /\ log[j].m.name = "module-ladspa-sink"
       /\ \E k \in Calls("unload") : log[k].m.name = "module-null-sink"

\* C6: when build_mastering_pipeline raises because every output is
\* disabled, it has executed no external command.
C6_NoCallWhenAllDisabled ==
  (/\ prog = "mastering" /\ op = "apply" /\ pc = "raised"
   /\ plan.front = "" /\ plan.rear_l = "" /\ plan.rear_r = "")
  => \A i \in 1..Len(log) : log[i].c = "stopped"

\* p occurs in block b: some line of b has p as a contiguous run of
\* characters, case for case.
Occurs(p, b) ==
  \E l \in 1..Len(b) : \E i \in 1..Len(b[l]) : \E j \in i..Len(b[l]) :
    SubSeq(b[l], i, j) = p

\* The ids of the blocks of txt in which every pattern of ps occurs, in
\* block order.
IdsOfBlocksWithAll(ps, txt) ==
  LET hits == SelectSeq(txt, LAMBDA b : \A k \in 1..Len(ps) : Occurs(ps[k], b))
  IN [i \in 1..Len(hits) |-> hits[i][1][2]]

\* C7: find_module_ids(patterns) returns exactly the ids of the blocks in
\* which every pattern occurs (case for case), whatever the order of the
\* patterns; the empty list when no block has them all.
C7_MatcherAndsPatterns ==
  (prog = "matcher" /\ arg_patterns # <<>> /\ arg_code = 0)
  => /\ result = IdsOfBlocksWithAll(arg_patterns, arg_text)
     /\ result = find_module_ids(Reverse(arg_patterns), arg_code, arg_text)
     /\ \A i \in 1..Len(arg_text) :
          (\E k \in 1..Len(arg_patterns) :
             ~Occurs(arg_patterns[k], arg_text[i]))
          => arg_text[i][1][2] \notin Range(result)

\* A call with two patterns where the first block has the first pattern
\* only (the second in the other case at most) and the second block both.
C7_Witness ==
  /\ prog = "matcher" /\ arg_code = 0
  /\ arg_patterns = << <<"a">>, <<"A", "a">> >>
  /\ arg_text[1][2] = <<"a", "a">>
  /\ arg_text[2][2] = <<"A", "a">>
  /\ result = <<"2">>

\* C8: during and after audio_splitter_gui.apply_pipeline, every effect
\* sink, channel source and loopback the apply has loaded hangs on a master
\* that was loaded before it and is still loaded, whatever the earlier
\* loads returned.
C8_MasterLoadedBeforeDependent ==
  (prog = "gui" /\ op = "apply")
  => \A j \in 1..Len(modules) :
       (modules[j].id \in created /\ IsDependent(modules[j]))
       => \E i \in 1..(j - 1) : DependsOn(modules[j], modules[i])

\* C9: in apply_pipeline of audio_splitter_gui and audio_splitter_gui_v2
\* and in create_audio_pipeline, the stop phase has returned before the
\* first load-module call, and every module-list query and unload issued
\* before that load belongs to it.
C9_TeardownBeforeFirstLoad ==
  (prog \in {"gui", "v2", "universal"} /\ op = "apply")
  => \A f \in Calls("load") :
       \E st \in Calls("stopped") :
         /\ st < f
         /\ \A j \in Calls("list") \cup Calls("unload") : j < f => j < st

C9_Witness ==
  /\ prog = "universal" /\ op = "apply" /\ pc = "ret"
  /\ \E u \in Calls("unload") : \E st \in Calls("stopped") :
       \E f \in Calls("load") : u < st /\ st < f /\ log[u].ok /\ log[f].ok

\* C10: stop_pipeline never raises, and it issues an unload for every id
\* its queries matched, in every group, whatever the earlier unloads
\* returned.
C10_StopUnloadsAllItFound ==
  prog \in {"gui", "v2", "mastering"}
  => /\ op = "stop" => pc # "raised"
     /\ pc = "stop" => FoundIds(log) = UnloadedIds(log) \o pending
     /\ Calls("stopped") # {}
          => /\ FoundIds(log) = UnloadedIds(log)
             /\ Cardinality(Calls("list")) = Len(StopGroups)

\* A stop in which an unload exited non-zero and later unloads, of the same
\* group and of a later one, were issued all the same.
C10_Witness ==
  /\ prog = "gui" /\ op = "stop" /\ pc = "ret"
  /\ \E i \in Calls("unload") : \E j \in Calls("unload") :
       \E k \in Calls("unload") :
         /\ i < j /\ j < k /\ ~log[i].ok
         /\ log[i].m.name = "module-loopback" /\ log[i].m.master = LEFT_SRC
         /\ log[j].m.name = "module-loopback" /\ log[j].m.master = LEFT_SRC
         /\ log[k].m.name = "module-null-sink"

\* C11: in audio_splitter_gui and audio_splitter_gui_v2 at most one
\* apply/stop cycle runs at any time: while a cycle is between its first and
\* its last call no other cycle has started, however many callbacks wait in
\* the idle queue, and a cycle starts only when none runs.
C11_OneCycleAtATime ==
  prog \in {"gui", "v2"}
  => /\ open <= 1
     /\ pc # "idle" <=> open = 1

\* A stop cycle has issued an unload while the apply clicked right after it
\* waits in the idle queue.
C11_Witness ==
  /\ prog = "v2" /\ op = "stop" /\ pc = "stop"
  /\ Calls("unload") # {}
  /\ queue = <<"apply">>

\* C12: in audio_mastering_gui, after build_mastering_pipeline and then
\* stop_pipeline (no call failing in either), none of the modules that
\* build loaded is still loaded.
C12_StopRemovesTheBuild ==
  (/\ prog = "mastering" /\ op = "stop" /\ pc = "ret" /\ ~dirty
   /\ last.op = "apply" /\ last.clean /\ last.result = "ok")
  => \A i \in 1..Len(modules) : modules[i].id \notin created

\* The sink names of the effects, in the order of EffectStages.
EffectNames == <<LIMITER_SINK, EQ_SINK, MULTICOMP_SINK>>

\* The positions in the log of the load calls for modules named name.
Loads(name) == {i \in Calls("load") : log[i].m.name = name}

\* The place of an effect sink's name in the chain order, 0 for other names.
Position(nm) ==
  IF \E k \in 1..Len(EffectNames) : EffectNames[k] = nm
  THEN CHOOSE k \in 1..Len(EffectNames) : EffectNames[k] = nm
  ELSE 0

\* The last position of a non-empty set of log positions.
Latest(S) == CHOOSE i \in S : \A k \in S : k <= i

\* C13: build_mastering_pipeline creates the enabled effects in the order
\* limiter, EQ, multiband compressor; the sink_master of each is the effect
\* sink created just before it, the base sink for the first one.
C13_EffectsChainInOrder ==
  (prog = "mastering" /\ op = "apply")
  => /\ \A i \in Loads("module-ladspa-sink") :
          \A j \in Loads("module-ladspa-sink") :
            i < j => /\ log[i].ok
                     /\ 0 < Position(log[i].m.nm)
                     /\ Position(log[i].m.nm) < Position(log[j].m.nm)
     /\ \A j \in Loads("module-ladspa-sink") :
          LET before == {i \in Loads("module-ladspa-sink") : i < j} IN
          /\ log[j].m.master =
               IF before = {} THEN splitter ELSE log[Latest(before)].m.nm
          /\ before = {} => \E i \in 1..Len(modules) : SinkOf(modules[i]) = splitter
     /\ pc = "ret"
          => \A k \in 1..Len(EffectStages) :
               Enabled(EffectStages[k], plan)
               => \E i \in Loads("module-ladspa-sink") :
                    log[i].ok /\ log[i].m.nm = EffectNames[k]

\* A build with all three effects: the limiter on the base sink, the EQ on
\* the limiter, the multiband compressor on the EQ.
C13_Witness ==
  /\ prog = "mastering" /\ op = "apply" /\ pc = "ret"
  /\ plan.limiter /\ plan.eq /\ plan.multicomp
  /\ \E i \in Loads("module-ladspa-sink") : \E j \in Loads("module-ladspa-sink") :
       \E k \in Loads("module-ladspa-sink") :
         /\ i < j /\ j < k
         /\ log[i].m.nm = LIMITER_SINK /\ log[i].m.master = SPLITTER_SINK
         /\ log[j].m.nm = EQ_SINK /\ log[j].m.master = LIMITER_SINK
         /\ log[k].m.nm = MULTICOMP_SINK /\ log[k].m.master = EQ_SINK
         /\ log[k].ok

\* C14: build_mastering_pipeline issues no load of the limiter, the EQ or
\* the multiband compressor when the settings disable it, and
\* audio_splitter_gui_v2.apply_pipeline issues no load of an effect sink when
\* the compressor is bypassed.
C14_DisabledEffectNeverLoaded ==
  /\ (prog = "mastering" /\ op = "apply")
     => \A k \in 1..Len(EffectStages) :
          ~Enabled(EffectStages[k], plan)
          => \A i \in Loads("module-ladspa-sink") :
               log[i].m.nm # EffectNames[k]
  /\ (prog = "v2" /\ op = "apply" /\ plan.bypass)
     => Loads("module-ladspa-sink") = {}

\* A finished build with the EQ alone: one effect sink was loaded, the EQ.
C14_Witness ==
  /\ prog = "mastering" /\ op = "apply" /\ pc = "ret"
  /\ ~plan.limiter /\ plan.eq /\ ~plan.multicomp
  /\ Cardinality(Loads("module-ladspa-sink")) = 1
  /\ \E i \in Loads("module-ladspa-sink") : log[i].ok /\ log[i].m.nm = EQ_SINK
  /\ Loads("module-loopback") # {}

\* C15: in build_mastering_pipeline and in audio_splitter_gui.apply_pipeline
\* each channel source is loaded with the monitor of the final chain tail as
\* its master: of the last effect sink created, of the base sink when none
\* was.
C15_SourcesTapTheChainTail ==
  (prog \in {"mastering", "gui"} /\ op = "apply")
  => \A j \in Loads("module-remap-source") :
       LET made == {i \in Loads("module-ladspa-sink") : i < j /\ log[i].ok} IN
       log[j].m.master =
         IF made = {} THEN splitter ELSE log[Latest(made)].m.nm

\* The loopbacks a selection asks for, as (channel source, device) pairs:
\* both channels to the front device, left to rear left, right to rear
\* right.
Routes(pl) ==
  (IF pl.front # "" THEN {<<LEFT_SRC, pl.front>>, <<RIGHT_SRC, pl.front>>}
   ELSE {})
  \cup (IF pl.rear_l # "" THEN {<<LEFT_SRC, pl.rear_l>>} ELSE {})
  \cup (IF pl.rear_r # "" THEN {<<RIGHT_SRC, pl.rear_r>>} ELSE {})

\* C16: a build_mastering_pipeline in which every creation succeeded has
\* used exactly one base sink (created or reused), created one effect sink
\* per enabled effect, exactly the channel sources left and right, and
\* exactly the loopbacks of the enabled outputs, each to the selected
\* device; all it created is loaded.
C16_BuildHasThePlannedNodes ==
  (/\ prog = "mastering" /\ op = "apply" /\ pc = "ret"
   /\ \A i \in Calls("load") : log[i].ok)
  => /\ Cardinality(Loads("module-null-sink")) <= 1
     /\ \A i \in Loads("module-null-sink") : log[i].m.nm = splitter
     /\ Loads("module-null-sink") = {}
          => \E i \in 1..Len(modules) :
               modules[i].id \notin created /\ SinkOf(modules[i]) = splitter
     /\ Cardinality(Loads("module-ladspa-sink"))
          = Cardinality({k \in 1..Len(EffectStages) :
                           Enabled(EffectStages[k], plan)})
     /\ Cardinality(Loads("module-remap-source")) = 2
     /\ {log[i].m.nm : i \in Loads("module-remap-source")}
          = {LEFT_SRC, RIGHT_SRC}
     /\ {<<log[i].m.master, log[i].m.dev>> : i \in Loads("module-loopback")}
          = Routes(plan)
     /\ Cardinality(Loads("module-loopback")) = Cardinality(Routes(plan))
     /\ created = {log[i].m.id : i \in Calls("load")}
     /\ \A id \in created : \E i \in 1..Len(modules) : modules[i].id = id

\* The scenario: only the multiband compressor enabled and only Front =
\* dev1, on an empty server: one base sink, one effect sink, two channel
\* sources and two loopbacks to dev1.
C16_Witness ==
  /\ prog = "mastering" /\ op = "apply" /\ pc = "ret"
  /\ \A i \in Calls("load") : log[i].ok
  /\ plan = [NoPlan EXCEPT !.front = "dev1", !.multicomp = TRUE]
  /\ Len(modules) = 6 /\ Cardinality(created) = 6
  /\ Cardinality(Loads("module-null-sink")) = 1
  /\ Cardinality(Loads("module-ladspa-sink")) = 1
  /\ Cardinality(Loads("module-remap-source")) = 2
  /\ Cardinality(Loads("module-loopback")) = 2
  /\ \A i \in Loads("module-loopback") : log[i].m.dev = "dev1"

\* C17: audio_splitter_gui.apply_pipeline, once its sink query has
\* answered: a sink named splitter is reused and no null sink is loaded;
\* else a sink named null is adopted and no null sink is loaded; else one
\* null sink named splitter is loaded.  An apply never loads more than one
\* null sink, and when none of its calls failed its chain stands on exactly
\* one loaded sink.
C17_BaseSinkReusePolicy ==
  (prog = "gui" /\ op = "apply")
  => /\ (log # <<>> /\ log[Len(log)].c = "sinks" /\ log[Len(log)].ok)
        => LET names == {SinkOf(modules[i]) : i \in 1..Len(modules)} \ {""} IN
           /\ Loads("module-null-sink") = {}
           /\ SPLITTER_SINK \in names
                => splitter = SPLITTER_SINK /\ pc # "base"
           /\ (SPLITTER_SINK \notin names /\ "null" \in names)
                => splitter = "null" /\ pc # "base"
           /\ (SPLITTER_SINK \notin names /\ "null" \notin names)
                => splitter = SPLITTER_SINK /\ pc = "base"
     /\ Cardinality(Loads("module-null-sink")) <= 1
     /\ \A i \in Loads("module-null-sink") :
          /\ log[i].m.nm = SPLITTER_SINK
          /\ log[i - 1].c = "sinks"
     /\ (pc = "ret" /\ ~dirty)
          => Cardinality({i \in 1..Len(modules) :
                            SinkOf(modules[i]) = splitter}) = 1

\* An apply that found the generic sink null, adopted it and loaded its
\* chain on it without loading a null sink.
C17_Witness ==
  /\ prog = "gui" /\ op = "apply" /\ pc = "ret" /\ ~dirty
  /\ splitter = "null"
  /\ Loads("module-null-sink") = {}
  /\ \E i \in Loads("module-ladspa-sink") : log[i].m.master = "null"

\* C18: in audio_splitter_gui and audio_splitter_gui_v2, each
\* unload_modules_by_patterns call runs one module-list query and then
\* exactly one unload per id the query returned, in that order and nothing
\* else; a stop_pipeline whose queries returned no id has issued no unload
\* and has left the server's modules as they were.
C18_OneUnloadPerIdFound ==
  prog \in {"gui", "v2"}
  => /\ \A i \in Calls("list") :
          /\ \A k \in 1..Len(log[i].ids) :
               i + k <= Len(log)
               => /\ log[i + k].c = "unload"
                  /\ log[i + k].m.id = log[i].ids[k]
          /\ i + Len(log[i].ids) + 1 <= Len(log)
               => log[i + Len(log[i].ids) + 1].c # "unload"
          /\ i + Len(log[i].ids) >= Len(log)
               => Len(pending) = i + Len(log[i].ids) - Len(log)
     /\ \A j \in Calls("unload") :
          \E i \in Calls("list") : i < j /\ j <= i + Len(log[i].ids)
     /\ Cardinality(Calls("list")) <= Len(StopGroups)
     /\ (op = "stop" /\ pc = "ret" /\ FoundIds(log) = <<>>)
          => /\ Calls("unload") = {}
             /\ last.op # "none" => Topo(modules) = last.topo

\* A stop in which one query returned two ids, both unloaded right after
\* it, and another query returned none.
C18_Witness ==
  /\ prog = "gui" /\ op = "stop" /\ pc = "ret"
  /\ \E i \in Calls("list") :
       /\ Len(log[i].ids) = 2
       /\ log[i + 1].c = "unload" /\ log[i + 1].m.id = log[i].ids[1]
       /\ log[i + 2].c = "unload" /\ log[i + 2].m.id = log[i].ids[2]
       /\ log[i + 3].c = "list" /\ log[i + 3].ids = <<>>

\* C19: in audio_splitter_gui, when a load-module call of an apply exited
\* non-zero, the status text shown once the apply is over and its callbacks
\* have run reports the failure, not "Pipeline active".
C19_FailedLoadIsReported ==
  (/\ prog = "gui" /\ op = "apply" /\ pc = "idle" /\ queue = <<>>
   /\ \E i \in Calls("load") : ~log[i].ok)
  => status = "failed"

\* The devices of the enabled routing targets of a selection.
Targets(pl) == {pl.front, pl.rear_l, pl.rear_r} \ {""}

\* C20: when apply_pipeline of audio_splitter_gui or audio_splitter_gui_v2
\* returns with no call failed, it has issued, after its last load, a
\* volume-set call for the device of every enabled routing target.
C20_GainsSetAtEndOfApply ==
  (prog \in {"gui", "v2"} /\ op = "apply" /\ pc = "ret" /\ ~dirty)
  => \A d \in Targets(plan) :
       \E i \in Calls("volume") :
         /\ log[i].m.dev = d
         /\ \A j \in Calls("load") : j < i

\* The value a handler sent is the whole part of num / den, or one less
\* where num / den is a whole number that went through rounding.
Sent(value, num, den) ==
  \/ value = num \div den
  \/ num % den = 0 /\ num > 0 /\ value = (num \div den) - 1

\* The handlers' entries in `sent` with their sink equal to device d.
SentTo(h, d) == {i \in 1..Len(sent) : sent[i].h = h /\ sent[i].sink = d}

\* C21: for every balance b from -100 to 100 the balance handlers scale the
\* left channel by 1 - b/100 when b > 0 and by 1 otherwise, and the right
\* channel by 1 + b/100 when b < 0 and by 1 otherwise, whatever the base
\* volume: at b = 0 both channels get the base, at b = 50 the left gets
\* half of it and the right all, at b = -100 the left gets all and the right
\* nothing.
C21_BalanceFactors ==
  /\ \A i \in 1..Len(sent) :
       LET e == sent[i]
           b == IF e.h = "front" THEN sliders.front_balance
                ELSE sliders.rear_balance
           left == IF b > 0 THEN 100 - b ELSE 100
           right == IF b < 0 THEN 100 + b ELSE 100
       IN /\ (e.h = "rear" /\ prog = "v2")
               => /\ e.sink = plan.rear_l
                       => Sent(e.vals[1], sliders.rear_vol * left, 100)
                  /\ e.sink = plan.rear_r
                       => Sent(e.vals[1], sliders.rear_vol * right, 100)
                  /\ b = 0 => e.vals[1] = sliders.rear_vol
          /\ (e.h = "rear" /\ prog = "gui")
               => /\ e.sink = plan.rear_l => Sent(e.vals[1], max_vol * left, 100)
                  /\ e.sink = plan.rear_r => Sent(e.vals[1], max_vol * right, 100)
                  /\ b = 0 => e.vals[1] = max_vol
          /\ (e.h = "front" /\ prog = "v2")
               => /\ Sent(e.vals[1], base_vol * sliders.front_vol * left, 10000)
                  /\ Sent(e.vals[2], base_vol * sliders.front_vol * right, 10000)
                  /\ b = 0 => e.vals[1] = e.vals[2]
          /\ (b = -100 /\ (e.h = "front" \/ e.sink = plan.rear_r))
               => e.vals[Len(e.vals)] = 0
          /\ (b = 100 /\ (e.h = "front" \/ e.sink = plan.rear_l)
                /\ ~(prog = "gui" /\ e.h = "front"))
               => e.vals[1] = 0

\* The rear balance at 50 with the rear volume at 100: the left device got
\* 50%, the right device 100%.
C21_Witness ==
  /\ prog = "v2" /\ sliders.rear_balance = 50 /\ sliders.rear_vol = 100
  /\ \E i \in SentTo("rear", "dev2") : sent[i].vals = <<50>>
  /\ \E i \in SentTo("rear", "dev3") : sent[i].vals = <<100>>

\* C22: the volume a handler sends to a device is base x factor, cut at 150%
\* (98304 PulseAudio units): it never exceeds 150%, and where base x factor
\* is at most 150% it is the whole part of base x factor; with the base at
\* 100% and the balance at 0 each rear device receives 100%.
C22_SentIsBaseTimesFactor ==
  \A i \in 1..Len(sent) :
    LET e == sent[i]
        b == IF e.h = "front" THEN sliders.front_balance
             ELSE sliders.rear_balance
        left == IF b > 0 THEN 100 - b ELSE 100
        right == IF b < 0 THEN 100 + b ELSE 100
        base == IF e.h = "front" THEN sliders.front_vol
                ELSE IF prog = "v2" THEN sliders.rear_vol ELSE 100
    IN /\ e.unit = "%"
            => /\ e.vals[1] <= 150
               /\ e.h = "front" => e.vals[1] = base
               /\ (e.h = "rear" /\ e.sink = plan.rear_l)
                    => Sent(e.vals[1], base * left, 100)
               /\ (e.h = "rear" /\ e.sink = plan.rear_r)
                    => Sent(e.vals[1], base * right, 100)
       /\ e.unit = "raw"
            => /\ e.vals[1] <= (base_vol * 150) \div 100
               /\ e.vals[2] <= (base_vol * 150) \div 100
               /\ Sent(e.vals[1], base_vol * base * left, 10000)
               /\ Sent(e.vals[2], base_vol * base * right, 10000)

\* The lines of the query's output that name a sink this system does not
\* reserve.
Foreign ==
  {i \in 1..Len(arg_text) :
     /\ Len(arg_text[i]) >= 2
     /\ arg_text[i][2] \notin {SPLITTER_SINK, COMPRESSOR_SINK, "null"}}

C24_SinksAsPairs ==
  (prog = "pactl_sinks" /\ ops = 1 /\ arg_code = 0)
  => LET lines == {i \in 1..Len(arg_text) : Len(arg_text[i]) >= 2} IN
     /\ Len(result) = Cardinality(lines)
     /\ \A i \in lines :
          result[Cardinality({j \in lines : j <= i})]
            = <<arg_text[i][1], arg_text[i][2]>>

\* The blocks of the module list that start with a header line and hold
\* every pattern of the call.
Whole ==
  {i \in 1..Len(arg_text) :
     /\ arg_text[i][1] # <<>> /\ arg_text[i][1][1] = "Module #"
     /\ \A k \in 1..Len(arg_patterns) : Occurs(arg_patterns[k], arg_text[i])}

\* C25: find_module_ids returns the empty list when the module-list query
\* exits non-zero; a block that holds every pattern and has no "Module #"
\* header line adds no id, and the blocks after it are scanned all the same.
C25_FailureAndCutBlocks ==
  (prog = "matcher" /\ arg_patterns # <<>>)
  => /\ arg_code # 0 => result = <<>>
     /\ arg_code = 0
          => /\ Len(result) = Cardinality(Whole)
             /\ \A i \in Whole :
                  result[Cardinality({j \in Whole : j <= i})] = arg_text[i][1][2]

\* The first block holds the pattern and has no header, the second holds it
\* under its header: the call returned the id of the second.
C25_Witness ==
  /\ prog = "matcher" /\ arg_code = 0
  /\ arg_patterns = << <<"a">> >>
  /\ arg_text = << << <<"a">> >>, << <<"Module #", "2">>, <<"a">> >> >>
  /\ result = <<"2">>

\* C26: an apply_pipeline or stop_pipeline call whose external calls fail
\* from some call on, the first included, makes a bounded number of calls
\* and returns: every pattern group is queried once at most, a failed
\* query gives no id and is followed by no unload, the sinks are queried
\* once at most, no load-module command is issued twice, and the handler
\* gets back to the main loop.
C26_CallsTerminate ==
  /\ [](/\ Cardinality(Calls("list")) <= Len(StopGroups)
        /\ \A i \in Calls("list") : ~log[i].ok => log[i].ids = <<>>
        /\ Cardinality(Calls("sinks")) <= 1
        /\ \A i \in Calls("load") : \A j \in Calls("load") :
             i # j => Desc(log[i].m) # Desc(log[j].m)
        /\ \A i \in Calls("unload") : \A j \in Calls("unload") :
             i # j => log[i].m.id # log[j].m.id
        /\ Len(log) <= (2 * Len(StopGroups)) + (2 * MaxModules))
  /\ (pc # "idle") ~> (pc = "idle")

\* An apply on a built pipeline that has come to its end with every one of
\* its calls failed: the seven queries, the sink query and the loads.
C26_Witness ==
  /\ prog = "gui" /\ op = "apply" /\ pc = "ret" /\ modules = BuiltGui
  /\ \A i \in 1..Len(log) : log[i].c # "stopped" => ~log[i].ok
  /\ Cardinality(Calls("list")) = Len(StopGroupsGui)
  /\ Calls("sinks") # {} /\ Calls("load") # {}

\* The loaded modules of a description.
Loaded(name, nm, master, dev) ==
  {i \in 1..Len(modules) :
     Desc(modules[i]) = [name |-> name, nm |-> nm, master |-> master, dev |-> dev]}

\* The pairs (channel source, device) the universal splitter routes for a
\* selection.
UniversalRoutes(pl) ==
  (IF pl.front # ""
   THEN {<<"universal_left", pl.front>>, <<"universal_right", pl.front>>}
   ELSE {})
  \cup (IF pl.rear_l # "" THEN {<<"universal_left", pl.rear_l>>} ELSE {})
  \cup (IF pl.rear_r # "" THEN {<<"universal_right", pl.rear_r>>} ELSE {})

\* C27: when create_audio_pipeline has run again with no call failing, on
\* the same instance or on a new one (pipeline_modules empty) while the
\* modules of an earlier run are loaded, the server holds one
\* universal_splitter, at most one universal_compressor, one universal_left,
\* one universal_right and one loopback for every routed pair.
C27_CreateAgainOneOfEach ==
  (prog = "universal" /\ op = "apply" /\ pc = "ret" /\ ~dirty)
  => /\ Cardinality(Loaded("module-null-sink", "universal_splitter", "", "")) = 1
     /\ Cardinality(Loaded("module-ladspa-sink", "universal_compressor",
                           "universal_splitter", "")) <= 1
     /\ Cardinality(Loaded("module-remap-source", "universal_left",
                           "universal_splitter", "")) = 1
     /\ Cardinality(Loaded("module-remap-source", "universal_right",
                           "universal_splitter", "")) = 1
     /\ \A r \in UniversalRoutes(plan) :
          Cardinality(Loaded("module-loopback", "", r[1], r[2])) = 1
     /\ \A i \in 1..Len(modules) :
          modules[i].name = "module-loopback"
            /\ modules[i].master \in {"universal_left", "universal_right"}
          => <<modules[i].master, modules[i].dev>> \in UniversalRoutes(plan)

\* C28: when a mandatory step of create_audio_pipeline fails, an unload is
\* issued for every module recorded so far, in reverse order of creation,
\* pipeline_modules is emptied, pipeline_active is False and the call
\* returns False; when only the load of the compressor fails the build goes
\* on to its end without it.
C28_RollbackInReverse ==
  (prog = "universal" /\ op = "apply")
  => /\ (\E f \in Calls("load") :
            ~log[f].ok /\ log[f].m.name # "module-ladspa-sink")
          <=> (pc \in {"rollback", "false"}
                 \/ (pc = "idle" /\ last.result = "false"))
     /\ pc = "false"
          => /\ pipeline_modules = <<>> /\ ~pipeline_active
             /\ \E f \in Calls("load") :
                  /\ ~log[f].ok
                  /\ LET made == SelectSeq(SubSeq(log, 1, f - 1),
                                           LAMBDA e : e.c = "load" /\ e.ok)
                     IN /\ Len(log) = f + Len(made) + 1
                        /\ \A k \in 1..Len(made) :
                             /\ log[f + k].c = "unload"
                             /\ log[f + k].m.id = made[Len(made) + 1 - k].m.id
     /\ pc = "ret"
          => /\ pipeline_active
             /\ Len(pipeline_modules)
                  = Cardinality({i \in Calls("load") : log[i].ok})
             /\ Cardinality(Loads("module-remap-source")) = 2

\* A create whose second loopback failed after the splitter, the
\* compressor, both sources and one loopback were recorded, and which
\* returned False after five unloads.
C28_Witness ==
  /\ prog = "universal" /\ op = "apply" /\ pc = "false"
  /\ Cardinality({i \in Calls("load") : log[i].ok}) = 5
  /\ \E f \in Loads("module-loopback") :
       /\ ~log[f].ok
       /\ log[f + 1].c = "unload" /\ log[f + 1].m.name = "module-loopback"
       /\ log[f + 5].c = "unload" /\ log[f + 5].m.name = "module-null-sink"

\* The modules of the enhanced splitter that the server holds.
EnhancedLoaded ==
  {i \in 1..Len(modules) :
     \/ modules[i].nm \in Range(EnhancedDeletions)
     \/ modules[i].master \in {"enhanced_left", "enhanced_right"}}

\* C29: when create_audio_pipeline of the enhanced splitter returns False
\* after a step failed, none of the modules this call created is loaded any
\* more, on the first call of a new instance as on any other.
C29_RollbackRemovesWhatWasCreated ==
  (prog = "enhanced" /\ op = "apply" /\ pc = "false")
  => \A i \in 1..Len(modules) : modules[i].id \notin created

\* The rank of a module in the order of removal: loopbacks, channel
\* sources, compressor, splitter.
RemovalRank(m) ==
  CASE m.name = "module-loopback" -> 1
    [] m.name = "module-remap-source" -> 2
    [] m.nm = "enhanced_compressor" -> 3
    [] OTHER -> 4

\* C30: when stop_audio_pipeline of the enhanced splitter has run on an
\* active pipeline with no call failing, no loopback, channel source,
\* compressor or splitter of the pipeline is loaded, and the unloads were
\* issued loopbacks first, then sources, then the compressor, the splitter
\* last.
C30_StopRemovesDependentsFirst ==
  (prog = "enhanced" /\ op = "stop" /\ pc = "ret" /\ ~dirty
     /\ Calls("unload") # {})
  => /\ EnhancedLoaded = {}
     /\ \A i, j \in Calls("unload") :
          i < j => RemovalRank(log[i].m) <= RemovalRank(log[j].m)

\* The names of the sinks the server holds besides the devices.
ServerSinks == {SinkOf(modules[i]) : i \in 1..Len(modules)} \ {""}

\* C32: apply_pipeline of audio_splitter_gui_v2 comes to load a splitter
\* null sink only when, after the stop phase, the server holds neither a
\* sink named splitter nor a sink named null; when it holds one, that sink
\* is the base and no null sink is loaded.
C32_NullSinkOnlyWhenNoneExists ==
  (prog = "v2" /\ op = "apply" /\ pc = "base")
  => ServerSinks \cap {SPLITTER_SINK, "null"} = {}

\* C34: when stop_pipeline has run, every module another client loaded,
\* whatever its name and argument text, is still loaded.
C34_StopLeavesOtherClientsModules ==
  (prog \in {"gui", "v2"} /\ op = "stop" /\ pc = "ret" /\ ~dirty)
  => \A k \in 1..Len(OtherClients) : OtherClients[k] \in Range(modules)

\* The node names audio_splitter_gui reserves.
ReservedNames ==
  {SPLITTER_SINK, LIMITER_SINK, COMPRESSOR_SINK, LEFT_SRC, RIGHT_SRC}

\* C35: whenever an apply_pipeline or stop_pipeline of audio_splitter_gui
\* has returned, whichever of its external calls failed, the server holds
\* at most one module for each reserved node name.
C35_OneModulePerReservedName ==
  (prog = "gui" /\ pc = "idle")
  => \A n \in ReservedNames :
       Cardinality({i \in 1..Len(modules) : modules[i].nm = n}) <= 1

\* C33: when every routing target of an apply is disabled, no module is
\* loaded: the log of the apply holds no successful load.
C33_NothingLoadedWhenAllDisabled ==
  (prog \in {"gui", "backend"} /\ op = "apply"
     /\ plan.front = "" /\ plan.rear_l = "" /\ plan.rear_r = "")
  => \A i \in Calls("load") : ~log[i].ok

\* The place of a module among the create calls of the backend's plan, 0
\* when it is none of them.
CreatedAt(m) ==
  LET hits == {k \in 1..Len(BackendNodes(plan)) :
                 Desc(BackendNodes(plan)[k]) = Desc(m)}
  IN IF hits = {} THEN 0 ELSE CHOOSE k \in hits : TRUE

\* C31: when cleanup_pipeline has run after create_splitter_pipeline with
\* no call failing, with the sink manager or without it, none of the
\* modules the create call loaded is loaded any more and the unloads went
\* in reverse order of creation; when a create call has returned True the
\* server holds one lr_splitter.
C31_CleanupRemovesWhatCreateLoaded ==
  (prog = "backend" /\ pc = "ret" /\ ~dirty)
  => /\ op = "stop"
          => /\ \A i \in 1..Len(modules) : modules[i].id \notin created
             /\ \A i, j \in Calls("unload") :
                  i < j => CreatedAt(log[i].m) > CreatedAt(log[j].m)
     /\ op = "apply"
          => Cardinality({i \in 1..Len(modules) :
                            modules[i].nm = "lr_splitter"}) = 1

\* C36: the names start_split hands to create_splitter_pipeline are the
\* names shown at the selected positions of the two dropdowns.
C36_RoutesToTheShownSinks ==
  (prog = "backend" /\ op = "apply"
     /\ pc \in {"bclean", "bbuild", "bfallback", "brollback", "ret", "false"})
  => /\ plan.rear_l = NameAt(shown, left_idx)
     /\ plan.rear_r = NameAt(shown, right_idx)

\* C37: between handlers exactly one of Start and Stop is sensitive; Stop
\* is sensitive iff the last operation was a create that returned True (in
\* the universal window: iff pipeline_active); after a failed start Start
\* is sensitive and Stop is not.
C37_ExactlyOneButton ==
  (prog \in {"universal", "backend"} /\ pc = "idle")
  => /\ start_btn # stop_btn
     /\ stop_btn <=> (last.op = "apply" /\ last.result = "ok")
     /\ (last.op = "apply" /\ last.result # "ok") => (start_btn /\ ~stop_btn)
     /\ prog = "universal" => (stop_btn <=> pipeline_active)

\* A start that failed after an earlier start and stop: Start is
\* sensitive again.
C37_Witness ==
  /\ prog \in {"universal", "backend"} /\ pc = "idle" /\ ops >= 1
  /\ last.op = "apply" /\ last.result = "false"
  /\ Calls("load") # {} /\ Calls("unload") # {}
  /\ start_btn /\ ~stop_btn

\* The sinks a successful `pactl list short sinks` lists, as far as the
\* front combo has items for them.
ListedSinks ==
  SubSeq(pactl_sinks(0, ShortDevices(present)), 1, Len(display_names) - 1)

\* The description of the sink raw in the output of `pactl list sinks`.
DescriptionOf(raw) ==
  LET at == CHOOSE i \in 1..Len(arg_text) :
              arg_text[i].key = "Name:" /\ arg_text[i].value = raw
  IN arg_text[at + 1].value

\* C38: In audio_splitter_gui_v2 the item of a listed sink shows the sink's
\* description when the display names hold one for it and its raw name
\* otherwise, and on_apply hands to apply_pipeline, as the front device,
\* the raw name of the sink whose item is active: raw name -> display
\* label -> raw name gives back the raw name of every listed sink.
C38_LabelRoundTrip ==
  [][/\ \A i \in 1..(Len(display_names') - 1) :
          display_names'[i + 1] =
            DictGet(sink_name_map', ListedSinks'[i], ListedSinks'[i])
     /\ (ops' = ops + 1 /\ front_active >= 1)
          => plan'.front = ListedSinks[front_active]]_vars

\* C38 on a machine whose descriptions are distinct: the round trip holds
\* and every described sink shows its description.
C38_DistinctDescriptions ==
  [][(\A i, j \in 1..Len(present) :
         (i # j /\ DescriptionOf(present[i]) # "")
           => DescriptionOf(present[i]) # DescriptionOf(present[j]))
     => /\ \A i \in 1..(Len(display_names') - 1) :
             display_names'[i + 1] \in
               {ListedSinks'[i], DescriptionOf(ListedSinks'[i])}
        /\ (ops' = ops + 1 /\ front_active >= 1)
             => plan'.front = ListedSinks[front_active]]_vars

=============================================================================
